---- MODULE Spec2Model ----
(***************************************************************************)
(* Model of rn-storybook-test.                                             *)
(*                                                                         *)
(* Spec        the ignore-region extractor (detect-ignore-regions.ts):     *)
(*             analyzeDiffImage scans a decoded diff image for marker-     *)
(*             coloured pixels and findBoundingRectangles turns the pixel  *)
(*             list into at most five rectangles.                          *)
(* SpecFlags   the --ignore-regions value: printed by detect-ignore-       *)
(*             regions, read back by parseIgnoreRegions.                   *)
(* SpecCompare compareScreenshots: the per-file comparisons run together.  *)
(* SpecCli     the run functions of screenshot-stories,                    *)
(*             screenshot-stories-ws and compare-screenshots.              *)
(*                                                                         *)
(* Each specification moves its own variables and leaves the others idle.  *)
(***************************************************************************)
EXTENDS Integers, Sequences, FiniteSets, TLC

VARIABLES
    file,           \* what readFileSync / the PNG decoder will do with diffPath
    png,            \* the decoded raster: width, height and what is painted on it
    pc,             \* position inside analyzeDiffImage / findBoundingRectangles
    diffPixels,     \* analyzeDiffImage: the list of {x, y} of marker-coloured pixels
    regions,        \* findBoundingRectangles: the candidate list `regions`
    uniqueRegions,  \* findBoundingRectangles: the filtered list `uniqueRegions`
    result,         \* the `regions` field of the value analyzeDiffImage resolves to
    caught,         \* TRUE once the catch block of analyzeDiffImage has run
    \* --ignore-regions value
    regionList,     \* the regions detect-ignore-regions is about to print
    regionsStr,     \* the string printed after --ignore-regions, a list of characters
    parsed,         \* what parseIgnoreRegions returns for regionsStr
    flagPc,         \* position in the print / parse sequence
    \* compareScreenshots
    ignoreRegions,  \* the option ignoreRegions of the call
    odiffOptions,   \* the ignore-region option of each odiff call, as in odiffCalls
    listing,        \* readdirSync(screenshotsDir) and what the disk holds per file
    screenshots,    \* the filtered listing
    comparisonResults, \* one slot per screenshot: the value its compareImage resolved to
    odiffCalls,     \* the indexes of the screenshots odiff was invoked for, in order
    completed,      \* the indexes whose odiff call has settled, in order of settling
    cmpResult,      \* the ComparisonResult `result`
    cmpPc,          \* position inside compareScreenshots
    \* the command line
    command,        \* which command runs
    args,           \* the parsed options
    phases,         \* the phases the run has entered so far, in order
    passedTolerance, \* the tolerance handed to compareScreenshots
    exitCode,       \* the code the process ends with
    disk,           \* which directories exist and what the run did to the baseline
    cliPc,          \* position inside run
    \* snapshotStorybookViaWebsocket
    entries,        \* the ids of the stories to screenshot, in order
    snapPc,         \* position inside snapshotStorybookViaWebsocket
    entryIdx,       \* snapshotAllStories: the index of the current entry
    attempt,        \* setStoryWithRetry: the loop variable `attempt`
    timeouts,       \* how many attempts for the current entry have timed out
    emitted,        \* the story ids of the SET_CURRENT_STORY events emitted, in order
    confirmed,      \* the events that resolved an attempt, in order
    strayEvents,    \* how many events arrived that resolved nothing
    snapshots,      \* the story ids whose screenshot command ran, in order
    failedAt,       \* the step whose error reached the catch block
    pingInterval,   \* the variable pingInterval: null, running or cleared
    wssState,       \* the WebSocket server: open or closed
    clients,        \* the state of each client connection of the server
    pingTicks,      \* how often the ping callback ran
    pingedAfterSettle, \* TRUE once a ping was sent after the promise settled
    \* the message relay of the WebSocket server
    sockets,        \* the state of each client connection
    outbox,         \* per client: the messages sent to the server, not yet received
    inbox,          \* per client: the messages the server sent to it, in order
    relayed,        \* the messages the server relayed, with sender and receivers
    parseErrors     \* how many messages the handler failed to parse

imageVars == <<file, png, pc, diffPixels, regions, uniqueRegions, result, caught>>
flagVars == <<regionList, regionsStr, parsed, flagPc>>
cmpVars ==
    <<ignoreRegions, odiffOptions, listing, screenshots, comparisonResults, odiffCalls, completed, cmpResult, cmpPc>>
cliVars == <<command, args, phases, passedTolerance, exitCode, disk, cliPc>>

snapVars ==
    <<entries, snapPc, entryIdx, attempt, timeouts, emitted, confirmed, strayEvents,
      snapshots, failedAt, pingInterval, wssState, clients, pingTicks, pingedAfterSettle>>
relayVars == <<sockets, outbox, inbox, relayed, parseErrors>>
wsVars == <<snapVars, relayVars>>

nonImageVars == <<flagVars, cmpVars, cliVars, wsVars>>
nonFlagVars == <<imageVars, cmpVars, cliVars, wsVars>>
nonCmpVars == <<imageVars, flagVars, cliVars, wsVars>>
nonCliVars == <<imageVars, flagVars, cmpVars, wsVars>>
nonSnapVars == <<imageVars, flagVars, cmpVars, cliVars, relayVars>>
nonRelayVars == <<imageVars, flagVars, cmpVars, cliVars, snapVars>>

vars == <<imageVars, flagVars, cmpVars, cliVars, wsVars>>

\* The values the variables of a part have while another part runs.
ImageIdle ==
    /\ file = "unreadable"
    /\ png = [width |-> 0, height |-> 0, rects |-> {}, marker |-> "none"]
    /\ pc = "idle"
    /\ diffPixels = << >>
    /\ regions = << >>
    /\ uniqueRegions = << >>
    /\ result = << >>
    /\ caught = FALSE

FlagIdle ==
    /\ regionList = << >>
    /\ regionsStr = << >>
    /\ parsed = << >>
    /\ flagPc = "idle"

CmpIdle ==
    /\ ignoreRegions = "none"
    /\ odiffOptions = << >>
    /\ listing = << >>
    /\ screenshots = << >>
    /\ comparisonResults = << >>
    /\ odiffCalls = << >>
    /\ completed = << >>
    /\ cmpResult = "none"
    /\ cmpPc = "idle"

CliIdle ==
    /\ command = "none"
    /\ args = "none"
    /\ phases = << >>
    /\ passedTolerance = "none"
    /\ exitCode = "none"
    /\ disk = "none"
    /\ cliPc = "idle"

SnapIdle ==
    /\ entries = << >>
    /\ snapPc = "idle"
    /\ entryIdx = 0
    /\ attempt = 0
    /\ timeouts = 0
    /\ emitted = << >>
    /\ confirmed = << >>
    /\ strayEvents = 0
    /\ snapshots = << >>
    /\ failedAt = "none"
    /\ pingInterval = "null"
    /\ wssState = "none"
    /\ clients = << >>
    /\ pingTicks = 0
    /\ pingedAfterSettle = FALSE

RelayIdle ==
    /\ sockets = << >>
    /\ outbox = << >>
    /\ inbox = << >>
    /\ relayed = << >>
    /\ parseErrors = 0

WsIdle == SnapIdle /\ RelayIdle

-----------------------------------------------------------------------------
(* Bounds of the model.                                                    *)

\* An image holds at most this many painted rectangles.
MaxRects == 2
\* The painted rectangles of one image hold at most this many pixels.
MaxDiffPixels == 500
\* Math.min(...allX) passes one argument per pixel; the engine throws a
\* RangeError when there are too many. Lists up to this length always fit,
\* longer lists may or may not (the real limit is of the order of 10^5 and
\* depends on the engine and its stack size).
MaxSpreadArgs == 300

\* Image sizes (width, height) the model draws from.
ImageSizes == { <<100, 100>>, <<60, 40>> }

\* Horizontal extents <<x0, w>> of a painted rectangle in an image of width W:
\* the full width, a thin bar near the left edge, a block in the middle and a
\* thin bar that touches the right edge.
XSpans(W) == { <<0, W>>, <<4, 3>>, <<40, 11>>, <<W - 3, 3>> }

\* Vertical extents <<y0, h>>: single rows at row 90 and near the bottom
\* edge, small blocks inside one 10px band and across two bands, and a tall
\* bar from the top edge that crosses seven bands.
YSpans == { <<90, 1>>, <<97, 1>>, <<26, 3>>, <<26, 8>>, <<0, 70>> }

\* RGBA colours the painted rectangles may have; the background is White.
Magenta == [r |-> 255, g |-> 0,   b |-> 255, a |-> 255]
Pinkish == [r |-> 210, g |-> 140, b |-> 210, a |-> 255]
Grey    == [r |-> 128, g |-> 128, b |-> 128, a |-> 255]
White   == [r |-> 255, g |-> 255, b |-> 255, a |-> 255]
Palette == { Magenta, Pinkish, Grey }

\* What the file at diffPath is: a PNG that one of the two parsers decodes, a
\* path that cannot be read, a file without the PNG signature, or a PNG that
\* neither parser decodes.
FileKinds == { "png", "unreadable", "notPng", "undecodable" }

-----------------------------------------------------------------------------
(* Helpers.                                                                *)

\* Math.min(...xs) and Math.max(...xs) over a non-empty collection.
Min(S) == CHOOSE m \in S : \A e \in S : m <= e
Max(S) == CHOOSE m \in S : \A e \in S : m >= e

\* interface DiffRegion { x, y, width, height }
DiffRegion(x, y, w, h) == [x |-> x, y |-> y, width |-> w, height |-> h]

Rect(x0, y0, w, h) == [x0 |-> x0, y0 |-> y0, w |-> w, h |-> h]

RectMenu(W, H) ==
    { Rect(xs[1], ys[1], xs[2], ys[2]) : xs \in XSpans(W), ys \in YSpans }

RECURSIVE RectArea(_)
RectArea(S) ==
    IF S = {} THEN 0
    ELSE LET r == CHOOSE q \in S : TRUE
         IN  r.w * r.h + RectArea(S \ {r})

RECURSIVE RectSets(_, _)
RectSets(menu, k) ==
    IF k = 0 THEN { {} }
    ELSE LET smaller == RectSets(menu, k - 1)
         IN  smaller \cup { s \cup {r} : s \in smaller, r \in menu }

\* The rasters the model draws from: a size, up to MaxRects rectangles that fit
\* in it and one colour for them.
FittingRects(W, H) ==
    { r \in RectMenu(W, H) :
        r.x0 >= 0 /\ r.x0 + r.w <= W /\ r.y0 + r.h <= H }

ImagesOfSize(W, H) ==
    { [width |-> W, height |-> H, rects |-> rs, marker |-> c] :
        c \in Palette,
        rs \in { s \in RectSets(FittingRects(W, H), MaxRects) :
                 RectArea(s) <= MaxDiffPixels } }

Images == UNION { ImagesOfSize(sz[1], sz[2]) : sz \in ImageSizes }

BlankImage == [width |-> 100, height |-> 100, rects |-> {}, marker |-> Magenta]

-----------------------------------------------------------------------------
(* analyzeDiffImage: the pixel scan.                                       *)

\* png.data at (x, y), as an RGBA record.
pngData(img, x, y) ==
    IF \E q \in img.rects :
           /\ q.x0 <= x /\ x < q.x0 + q.w
           /\ q.y0 <= y /\ y < q.y0 + q.h
    THEN img.marker
    ELSE White

\* The colour test of the scan loop.
isDiffColor(c) ==
    /\ c.a > 0
    /\ \/ (c.r > 240 /\ c.g < 50 /\ c.b > 240)
       \/ (c.r > 200 /\ c.g < 100 /\ c.b > 150)
       \/ (c.r > 200 /\ c.g < 150 /\ c.b > 200)

\* for y in 0..height-1, for x in 0..width-1: push {x, y} when the colour
\* matches. The list is in row-major order.
scanDiffPixels(img) ==
    LET W == img.width
        all == [i \in 1..(W * img.height) |->
                    [x |-> (i - 1) % W, y |-> (i - 1) \div W]]
        hit(p) == isDiffColor(pngData(img, p.x, p.y))
    IN  SelectSeq(all, hit)

-----------------------------------------------------------------------------
(* findBoundingRectangles.                                                 *)

\* overallBox with the width and height one short (maxX - minX, maxY - minY).
overallBox_OneShort(pixels) ==
    LET allX == { pixels[i].x : i \in 1..Len(pixels) }
        allY == { pixels[i].y : i \in 1..Len(pixels) }
    IN  DiffRegion(Min(allX), Min(allY),
                   Max(allX) - Min(allX), Max(allY) - Min(allY))

\* The overall bounding rectangle of a non-empty pixel list.
overallBox(pixels) ==
    LET allX == { pixels[i].x : i \in 1..Len(pixels) }
        allY == { pixels[i].y : i \in 1..Len(pixels) }
        minX == Min(allX)
        maxX == Max(allX)
        minY == Min(allY)
        maxY == Max(allY)
    IN  DiffRegion(minX, minY, maxX - minX + 1, maxY - minY + 1)

\* Math.floor(p.y / 10) * 10
yBandOf(p) == (p.y \div 10) * 10

\* yGroups.get(yBand): how many pixels fall in the 10px band.
yGroupCount(pixels, yBand) ==
    Cardinality({ i \in 1..Len(pixels) : yBandOf(pixels[i]) = yBand })

\* yGroupKeys iterated from the last inserted band to the first.
yGroupKeys_Reversed(pixels) ==
    LET keys == { (pixels[i].y \div 10) * 10 : i \in 1..Len(pixels) }
        after(b) == Cardinality({ c \in keys : c > b }) + 1
    IN  [k \in 1..Cardinality(keys) |-> CHOOSE b \in keys : after(b) = k]

\* yGroups.entries() iterates the keys in insertion order, which is the
\* order in which the bands first appear in the pixel list.
yGroupKeys(pixels) ==
    LET keys == { yBandOf(pixels[i]) : i \in 1..Len(pixels) }
        first(b) == Min({ i \in 1..Len(pixels) : yBandOf(pixels[i]) = b })
        rank(b) == Cardinality({ c \in keys : first(c) < first(b) }) + 1
    IN  [k \in 1..Cardinality(keys) |-> CHOOSE b \in keys : rank(b) = k]

\* bandPixels that takes the pixels of the band only, not of its vicinity.
bandPixels_BandOnly(pixels, yBand) ==
    LET inBand(p) == yBand <= p.y /\ p.y < yBand + 10
    IN  SelectSeq(pixels, inBand)

\* pixels.filter(p => Math.abs(p.y - yBand) < 15)
bandPixels(pixels, yBand) ==
    LET near(p) == (IF p.y >= yBand THEN p.y - yBand ELSE yBand - p.y) < 15
    IN  SelectSeq(pixels, near)

\* isSignificantBand whose second test counts the pixels of the band itself.
isSignificantBand_OwnCount(pixels, yBand) ==
    /\ 10 * yGroupCount(pixels, yBand) > Len(pixels)
    /\ yGroupCount(pixels, yBand) > 50

\* count > pixels.length * 0.1: for integers this is 10 * count > length
\* (the double nearest to length * 0.1 is never below length / 10 when that
\* is an integer, and is far from an integer otherwise).
isSignificantBand(pixels, yBand) ==
    /\ 10 * yGroupCount(pixels, yBand) > Len(pixels)
    /\ Len(bandPixels(pixels, yBand)) > 50

\* bandRegion without the 5px padding.
bandRegion_NoPadding(pixels, yBand, imageWidth, imageHeight) ==
    LET near(p) == (IF p.y >= yBand THEN p.y - yBand ELSE yBand - p.y) < 15
        bp == SelectSeq(pixels, near)
        bx == { bp[i].x : i \in 1..Len(bp) }
        by == { bp[i].y : i \in 1..Len(bp) }
    IN  DiffRegion(Min(bx), Min(by),
                   Min({imageWidth, Max(bx) - Min(bx) + 1}),
                   Min({imageHeight, Max(by) - Min(by) + 1}))

\* bandRegion that pads the origin but not the width and the height.
bandRegion_PaddedOrigin(pixels, yBand, imageWidth, imageHeight) ==
    LET near(p) == (IF p.y >= yBand THEN p.y - yBand ELSE yBand - p.y) < 15
        bp == SelectSeq(pixels, near)
        bx == { bp[i].x : i \in 1..Len(bp) }
        by == { bp[i].y : i \in 1..Len(bp) }
    IN  DiffRegion(Max({0, Min(bx) - 5}),
                   Max({0, Min(by) - 5}),
                   Min({imageWidth, Max(bx) - Min(bx) + 1}),
                   Min({imageHeight, Max(by) - Min(by) + 1}))

\* The region pushed for a significant band.
bandRegion(pixels, yBand, imageWidth, imageHeight) ==
    LET bp == bandPixels(pixels, yBand)
        bx == { bp[i].x : i \in 1..Len(bp) }
        by == { bp[i].y : i \in 1..Len(bp) }
        bandMinX == Min(bx)
        bandMaxX == Max(bx)
        bandMinY == Min(by)
        bandMaxY == Max(by)
    IN  DiffRegion(Max({0, bandMinX - 5}),
                   Max({0, bandMinY - 5}),
                   Min({imageWidth, bandMaxX - bandMinX + 11}),
                   Min({imageHeight, bandMaxY - bandMinY + 11}))

\* The band starts for which a region is pushed, in the order of the loop.
significantBands(pixels) ==
    LET sig(b) == isSignificantBand(pixels, b)
    IN  SelectSeq(yGroupKeys(pixels), sig)

\* The list `regions` before filtering: the overall box, then the band regions.
candidateRegions(pixels, imageWidth, imageHeight) ==
    LET bands == significantBands(pixels)
    IN  <<overallBox(pixels)>> \o
        [k \in 1..Len(bands) |->
            bandRegion(pixels, bands[k], imageWidth, imageHeight)]

\* isLargeEnough that accepts every region with pixels in it.
isLargeEnough_AnyArea(r) == r.width * r.height > 0

\* .filter(r => r.width * r.height > 100)
isLargeEnough(r) == r.width * r.height > 100

\* other completely contains region.
containsRegion(other, region) ==
    /\ other.x <= region.x
    /\ other.y <= region.y
    /\ other.x + other.width >= region.x + region.width
    /\ other.y + other.height >= region.y + region.height

\* filterRegions without the containment filter.
filterRegions_AreaOnly(regs) ==
    LET large(r) == r.width * r.height > 100
    IN  SelectSeq(regs, large)

\* The two filters that produce `uniqueRegions`.
filterRegions(regs) ==
    LET arr == SelectSeq(regs, isLargeEnough)
        keep(i) == ~ \E j \in 1..Len(arr) : j # i /\ containsRegion(arr[j], arr[i])
        kept == SelectSeq([i \in 1..Len(arr) |-> i], keep)
    IN  [k \in 1..Len(kept) |-> arr[kept[k]]]

\* sliceRegions that cuts after six regions.
sliceRegions_Six(regs) == SubSeq(regs, 1, Min({6, Len(regs)}))

\* uniqueRegions.slice(0, 5)
sliceRegions(regs) == SubSeq(regs, 1, Min({5, Len(regs)}))

findBoundingRectangles(pixels, imageWidth, imageHeight) ==
    IF Len(pixels) = 0 THEN << >>
    ELSE sliceRegions(filterRegions(candidateRegions(pixels, imageWidth, imageHeight)))

-----------------------------------------------------------------------------
(* The state machine: one run of analyzeDiffImage.                         *)

Init ==
    /\ file \in FileKinds
    /\ png \in Images
    /\ (file # "png" => png = BlankImage)
    /\ pc = "read"
    /\ diffPixels = << >>
    /\ regions = << >>
    /\ uniqueRegions = << >>
    /\ result = << >>
    /\ caught = FALSE
    /\ FlagIdle
    /\ CmpIdle
    /\ CliIdle
    /\ WsIdle

\* readFileSync, the signature test and PNG.sync.read succeed.
DecodeSync ==
    /\ pc = "read"
    /\ file = "png"
    /\ pc' = "scan"
    /\ UNCHANGED <<file, png, diffPixels, regions, uniqueRegions, result, caught>>
    /\ UNCHANGED nonImageVars

\* PNG.sync.read throws and the tolerant parser succeeds.
DecodeAsync ==
    /\ pc = "read"
    /\ file = "png"
    /\ pc' = "scan"
    /\ UNCHANGED <<file, png, diffPixels, regions, uniqueRegions, result, caught>>
    /\ UNCHANGED nonImageVars

\* DecodeFails without the catch block: the error leaves analyzeDiffImage and
\* its promise rejects.
DecodeFails_Rejects ==
    /\ pc = "read"
    /\ file \in {"unreadable", "notPng", "undecodable"}
    /\ pc' = "rejected"
    /\ UNCHANGED <<file, png, diffPixels, regions, uniqueRegions, result, caught>>
    /\ UNCHANGED nonImageVars

\* readFileSync throws, the signature is wrong or both parsers fail: the catch
\* block returns { regions: [] }.
DecodeFails ==
    /\ pc = "read"
    /\ file \in {"unreadable", "notPng", "undecodable"}
    /\ caught' = TRUE
    /\ result' = << >>
    /\ pc' = "done"
    /\ UNCHANGED <<file, png, diffPixels, regions, uniqueRegions>>
    /\ UNCHANGED nonImageVars

\* The scan loop over every pixel.
ScanPixels ==
    /\ pc = "scan"
    /\ diffPixels' = scanDiffPixels(png)
    /\ pc' = "scanned"
    /\ UNCHANGED <<file, png, regions, uniqueRegions, result, caught>>
    /\ UNCHANGED nonImageVars

\* ReturnNoDiff that falls back to a region covering the whole image.
ReturnNoDiff_WholeImage ==
    /\ pc = "scanned"
    /\ Len(diffPixels) = 0
    /\ result' = << DiffRegion(0, 0, png.width, png.height) >>
    /\ pc' = "done"
    /\ UNCHANGED <<file, png, diffPixels, regions, uniqueRegions, caught>>
    /\ UNCHANGED nonImageVars

\* if (diffPixels.length === 0) return { regions: [] }
ReturnNoDiff ==
    /\ pc = "scanned"
    /\ Len(diffPixels) = 0
    /\ result' = << >>
    /\ pc' = "done"
    /\ UNCHANGED <<file, png, diffPixels, regions, uniqueRegions, caught>>
    /\ UNCHANGED nonImageVars

\* findBoundingRectangles is entered with a non-empty list and builds `regions`.
CollectRegions ==
    /\ pc = "scanned"
    /\ Len(diffPixels) # 0
    /\ regions' = candidateRegions(diffPixels, png.width, png.height)
    /\ pc' = "filter"
    /\ UNCHANGED <<file, png, diffPixels, uniqueRegions, result, caught>>
    /\ UNCHANGED nonImageVars

\* A later step throws: Math.min(...allX) gets more arguments than the engine
\* takes. The RangeError leaves findBoundingRectangles and is caught by the
\* catch block of analyzeDiffImage, which returns { regions: [] }.
SpreadThrows ==
    /\ pc = "scanned"
    /\ Len(diffPixels) > MaxSpreadArgs
    /\ caught' = TRUE
    /\ result' = << >>
    /\ pc' = "done"
    /\ UNCHANGED <<file, png, diffPixels, regions, uniqueRegions>>
    /\ UNCHANGED nonImageVars

\* The area filter and the containment filter.
FilterRegions ==
    /\ pc = "filter"
    /\ uniqueRegions' = filterRegions(regions)
    /\ pc' = "slice"
    /\ UNCHANGED <<file, png, diffPixels, regions, result, caught>>
    /\ UNCHANGED nonImageVars

\* return uniqueRegions.slice(0, 5); analyzeDiffImage returns { regions }.
ReturnRegions ==
    /\ pc = "slice"
    /\ result' = sliceRegions(uniqueRegions)
    /\ pc' = "done"
    /\ UNCHANGED <<file, png, diffPixels, regions, uniqueRegions, caught>>
    /\ UNCHANGED nonImageVars

Next ==
    \/ DecodeSync
    \/ DecodeAsync
    \/ DecodeFails
    \/ ScanPixels
    \/ ReturnNoDiff
    \/ CollectRegions
    \/ SpreadThrows
    \/ FilterRegions
    \/ ReturnRegions

Spec == Init /\ [][Next]_vars

-----------------------------------------------------------------------------
(* The --ignore-regions value: detect-ignore-regions prints it,            *)
(* parseIgnoreRegions reads it. A string is a list of one-character         *)
(* strings.                                                                *)

\* A printed list holds at most this many regions.
MaxRegions == 2

\* Coordinates and sizes of the regions that are printed.
FlagCoords == { 0, 85 }
FlagSizes == { 11, 100 }

FlagRegions ==
    { DiffRegion(x, y, w, h) : x \in FlagCoords, y \in FlagCoords,
                               w \in FlagSizes, h \in FlagSizes }

RECURSIVE RegionLists(_)
RegionLists(n) ==
    IF n = 0 THEN { << >> }
    ELSE LET shorter == RegionLists(n - 1)
         IN  shorter \cup { Append(l, r) : l \in { k \in shorter : Len(k) = n - 1 },
                                           r \in FlagRegions }

DigitChars == <<"0", "1", "2", "3", "4", "5", "6", "7", "8", "9">>

isDigit(c) == \E d \in 1..10 : DigitChars[d] = c
digitValue(c) == (CHOOSE d \in 1..10 : DigitChars[d] = c) - 1

\* `${n}` for an integer n: its decimal digits, with a minus sign when negative.
RECURSIVE naturalToString(_)
naturalToString(n) ==
    IF n < 10 THEN << DigitChars[n + 1] >>
    ELSE Append(naturalToString(n \div 10), DigitChars[(n % 10) + 1])

numberToString(n) ==
    IF n < 0 THEN <<"-">> \o naturalToString(0 - n) ELSE naturalToString(n)

\* `${region.x},${region.y},${region.width},${region.height}`
formatRegion(r) ==
    numberToString(r.x) \o <<",">> \o numberToString(r.y) \o <<",">> \o
    numberToString(r.width) \o <<",">> \o numberToString(r.height)

\* formatRegions that joins the regions with ',' instead of ';'.
RECURSIVE formatRegions_CommaJoined(_)
formatRegions_CommaJoined(rs) ==
    IF Len(rs) = 0 THEN << >>
    ELSE IF Len(rs) = 1 THEN formatRegion(rs[1])
    ELSE formatRegion(rs[1]) \o <<",">> \o formatRegions_CommaJoined(Tail(rs))

\* regions.map(...).join(';')
RECURSIVE formatRegions(_)
formatRegions(rs) ==
    IF Len(rs) = 0 THEN << >>
    ELSE IF Len(rs) = 1 THEN formatRegion(rs[1])
    ELSE formatRegion(rs[1]) \o <<";">> \o formatRegions(Tail(rs))

\* str.split(sep) for a one-character separator: the pieces between the
\* separators; a string without separator, the empty one too, gives one piece.
RECURSIVE split(_, _)
split(str, sep) ==
    IF \A i \in 1..Len(str) : str[i] # sep THEN << str >>
    ELSE LET at == CHOOSE i \in 1..Len(str) :
                       /\ str[i] = sep
                       /\ \A j \in 1..(i - 1) : str[j] # sep
         IN  << SubSeq(str, 1, at - 1) >> \o split(SubSeq(str, at + 1, Len(str)), sep)

isSpace(c) == c = " "

\* str.trim()
trim(str) ==
    IF \A i \in 1..Len(str) : isSpace(str[i]) THEN << >>
    ELSE LET first == CHOOSE i \in 1..Len(str) :
                          ~isSpace(str[i]) /\ \A j \in 1..(i - 1) : isSpace(str[j])
             last == CHOOSE i \in 1..Len(str) :
                          ~isSpace(str[i]) /\ \A j \in (i + 1)..Len(str) : isSpace(str[j])
         IN  SubSeq(str, first, last)

NaN == [nan |-> TRUE, value |-> 0]
Num(n) == [nan |-> FALSE, value |-> n]

\* The value of a run of digits read from the left.
RECURSIVE digitsValue(_)
digitsValue(ds) ==
    IF Len(ds) = 0 THEN 0
    ELSE 10 * digitsValue(SubSeq(ds, 1, Len(ds) - 1)) + digitValue(ds[Len(ds)])

\* parseInt(str, 10): leading white space is skipped, a sign is read, then
\* the longest run of digits; what follows is ignored; without a digit the
\* result is NaN.
parseInt(str) ==
    LET t == trim(str)
        signed == Len(t) > 0 /\ t[1] \in {"-", "+"}
        body == IF signed THEN Tail(t) ELSE t
        n == IF \A i \in 1..Len(body) : isDigit(body[i]) THEN Len(body)
             ELSE (CHOOSE i \in 1..Len(body) :
                       ~isDigit(body[i]) /\ \A j \in 1..(i - 1) : isDigit(body[j])) - 1
        v == digitsValue(SubSeq(body, 1, n))
    IN  IF n = 0 THEN NaN
        ELSE IF signed /\ t[1] = "-" THEN Num(0 - v) ELSE Num(v)

\* regionStr.trim().split(',').map(part => parseInt(part.trim(), 10))
regionParts(regionStr) ==
    LET pieces == split(trim(regionStr), ",")
    IN  [k \in 1..Len(pieces) |-> parseInt(trim(pieces[k]))]

\* parts.length !== 4 || parts.some(isNaN): the map callback throws.
isInvalidRegion(parts) ==
    Len(parts) # 4 \/ \E k \in 1..Len(parts) : parts[k].nan

parseIgnoreRegions(str) ==
    IF Len(str) = 0 \/ Len(trim(str)) = 0 THEN << >>
    ELSE LET segments == split(str, ";")
             parts == [k \in 1..Len(segments) |-> regionParts(segments[k])]
         IN  IF \E k \in 1..Len(parts) : isInvalidRegion(parts[k])
             THEN << >>
             ELSE [k \in 1..Len(parts) |->
                      DiffRegion(parts[k][1].value, parts[k][2].value,
                                 parts[k][3].value, parts[k][4].value)]

InitFlags ==
    /\ regionList \in RegionLists(MaxRegions)
    /\ regionsStr = << >>
    /\ parsed = << >>
    /\ flagPc = "detected"
    /\ ImageIdle
    /\ CmpIdle
    /\ CliIdle
    /\ WsIdle

\* run of detect-ignore-regions: no region was found, nothing is printed.
ExitWithoutRegions ==
    /\ flagPc = "detected"
    /\ Len(regionList) = 0
    /\ flagPc' = "exit"
    /\ UNCHANGED <<regionList, regionsStr, parsed>>
    /\ UNCHANGED nonFlagVars

\* run of detect-ignore-regions: the suggested flag value is printed.
PrintRegions ==
    /\ flagPc = "detected"
    /\ Len(regionList) # 0
    /\ regionsStr' = formatRegions(regionList)
    /\ flagPc' = "printed"
    /\ UNCHANGED <<regionList, parsed>>
    /\ UNCHANGED nonFlagVars

\* A comparison command is run with the printed value:
\* if (ignoreRegionsStr) ignoreRegions = parseIgnoreRegions(ignoreRegionsStr)
ParseFlag ==
    /\ flagPc = "printed"
    /\ Len(regionsStr) # 0
    /\ parsed' = parseIgnoreRegions(regionsStr)
    /\ flagPc' = "parsed"
    /\ UNCHANGED <<regionList, regionsStr>>
    /\ UNCHANGED nonFlagVars

NextFlags ==
    \/ ExitWithoutRegions
    \/ PrintRegions
    \/ ParseFlag

SpecFlags == InitFlags /\ [][NextFlags]_vars

-----------------------------------------------------------------------------
(* parseIgnoreRegions on values typed by hand.                             *)

\* A typed value has at most this many ';'-separated segments.
MaxSegments == 2

\* The first and the last part of a typed segment: integers, one with a
\* leading blank, a negative one, an empty part, a letter, and an integer
\* followed by a letter; the last part may also be 100 written as 1e2.
FirstParts ==
    { <<"0">>, <<"8", "5">>, <<" ", "1", "1">>, <<"-", "5">>, << >>, <<"x">>,
      <<"1", "1", "x">> }
LastParts == { <<"1", "1">>, <<"1", "e", "2">>, << >> }

\* Segments of four parts, of three and of five parts, and an empty and a
\* blank segment.
TypedSegments ==
    { a \o <<",", "0", ",", "1", "1", ",">> \o d : a \in FirstParts, d \in LastParts }
    \cup { <<"0", ",", "0", ",", "1", "1">>,
           <<"0", ",", "0", ",", "1", "1", ",", "1", "1", ",", "1", "1">>,
           << >>,
           <<" ">> }

\* The values with up to n segments, joined by ';'.
RECURSIVE TypedValues(_)
TypedValues(n) ==
    IF n = 0 THEN { << >> }
    ELSE IF n = 1 THEN TypedSegments
    ELSE TypedValues(n - 1) \cup
         { v \o <<";">> \o g : v \in TypedValues(n - 1), g \in TypedSegments }

InitParse ==
    /\ regionsStr \in TypedValues(MaxSegments)
    /\ regionList = << >>
    /\ parsed = << >>
    /\ flagPc = "typed"
    /\ ImageIdle
    /\ CmpIdle
    /\ CliIdle
    /\ WsIdle

\* parseIgnoreRegions(regionsStr) is called and returns.
CallParseIgnoreRegions ==
    /\ flagPc = "typed"
    /\ parsed' = parseIgnoreRegions(regionsStr)
    /\ flagPc' = "returned"
    /\ UNCHANGED <<regionList, regionsStr>>
    /\ UNCHANGED nonFlagVars

NextParse == CallParseIgnoreRegions

SpecParse == InitParse /\ [][NextParse]_vars

-----------------------------------------------------------------------------
(* compareScreenshots.                                                     *)

\* The directory listing holds at most this many files.
MaxFiles == 3

\* The i-th file of a listing has the i-th of these names.
FileNames == <<"a", "b", "c", "d", "e">>
FileExts == { "png", "jpg", "txt" }

\* What the disk and the diff tool hold for a file: no baseline file, or a
\* baseline that odiff finds equal, finds different, or fails on.
FileStates == { "missing", "match", "differ", "throws" }

DirEntry(n, ext, st) == [name |-> n, ext |-> ext, state |-> st]

\* The entries the i-th place of a listing may hold; a file that is no
\* image is never compared, so its state does not matter.
EntriesAt(i) ==
    { DirEntry(FileNames[i], ext, st) :
        ext \in FileExts \ {"txt"}, st \in FileStates }
    \cup { DirEntry(FileNames[i], "txt", "missing") }

RECURSIVE Listings(_)
Listings(n) ==
    IF n = 0 THEN { << >> }
    ELSE LET shorter == Listings(n - 1)
         IN  shorter \cup { Append(l, f) : l \in { k \in shorter : Len(k) = n - 1 },
                                           f \in EntriesAt(n) }

\* file.endsWith(".png") || file.endsWith(".jpg") || file.endsWith(".jpeg")
isScreenshotFile(f) == f.ext \in {"png", "jpg", "jpeg"}

\* The file name, and path.join(diffsDir, `diff_${screenshot}`).
fileNameOf(f) == <<f.name, f.ext>>
diffPathOf(f) == <<"diffsDir", "diff_", f.name, f.ext>>

\* An absent diffPath, and a slot of Promise.all that is not settled yet.
NoPath == <<"undefined">>
Detail(f, status, diffPath) ==
    [filename |-> fileNameOf(f), status |-> status, diffPath |-> diffPath]
PendingSlot(f) == Detail(f, "pending", NoPath)

\* existsSync(baselinePath)
hasBaseline(f) == f.state # "missing"

\* What compareImage returns when odiff answers: compareWithOdiff gives
\* { equal: result.match, diffPath: result.match ? undefined : diffPath }.
detailOfAnswer(f) ==
    IF f.state = "match" THEN Detail(f, "match", NoPath)
    ELSE Detail(f, "differ", diffPathOf(f))

\* What compareImage returns from its catch block.
detailOfError(f) == Detail(f, "differ", NoPath)

\* Promise.all that hands the values over in the order of settling.
settle_InSettlingOrder(slots, i, detail) ==
    LET free == CHOOSE k \in 1..Len(slots) :
                    /\ slots[k].status = "pending"
                    /\ \A j \in 1..(k - 1) : slots[j].status # "pending"
    IN  [slots EXCEPT ![free] = detail]

\* Promise.all keeps the value of the i-th promise at position i.
settle(slots, i, detail) == [slots EXCEPT ![i] = detail]

countStatus(details, status) ==
    Cardinality({ i \in 1..Len(details) : details[i].status = status })

\* tally that counts a difference only when a diff image was written.
tally_NeedsDiffImage(res, details) ==
    [total |-> res.total,
     matches |-> countStatus(details, "match"),
     differences |->
        Cardinality({ i \in 1..Len(details) :
                        details[i].status = "differ" /\ details[i].diffPath # NoPath }),
     missingBaselines |-> countStatus(details, "missing-baseline"),
     details |-> details]

\* comparisonResults.forEach(detail => { push; count by status })
tally(res, details) ==
    [total |-> res.total,
     matches |-> countStatus(details, "match"),
     differences |-> countStatus(details, "differ"),
     missingBaselines |-> countStatus(details, "missing-baseline"),
     details |-> details]

\* The ignore regions a call may be given: regions with origin 0 and inside
\* the image, and regions with a negative origin, no width or a negative
\* height.
MaxIgnoreRegions == 2

IgnoreRegionMenu ==
    { DiffRegion(0, 0, 11, 11), DiffRegion(85, 85, 100, 11),
      DiffRegion(0 - 5, 0, 11, 11), DiffRegion(0, 0 - 5, 11, 11),
      DiffRegion(0, 0, 0, 11), DiffRegion(0, 0, 11, 0 - 5) }

RECURSIVE IgnoreRegionLists(_)
IgnoreRegionLists(n) ==
    IF n = 0 THEN { << >> }
    ELSE LET shorter == IgnoreRegionLists(n - 1)
         IN  shorter \cup { Append(l, r) : l \in { k \in shorter : Len(k) = n - 1 },
                                           r \in IgnoreRegionMenu }

\* An optional list of regions: undefined, or a list.
Undefined == [given |-> FALSE, regions |-> << >>]
Defined(rs) == [given |-> TRUE, regions |-> rs]

\* isValidRegion that lets a region without width or height through.
isValidRegion_NonNegative(region) ==
    region.x >= 0 /\ region.y >= 0 /\ region.width >= 0 /\ region.height >= 0

\* region.x >= 0 && region.y >= 0 && region.width > 0 && region.height > 0
isValidRegion(region) ==
    region.x >= 0 /\ region.y >= 0 /\ region.width > 0 /\ region.height > 0

\* ignoreRegions ? ignoreRegions.filter(isValid) : []
validRegions(opt) ==
    IF opt.given THEN SelectSeq(opt.regions, isValidRegion) ELSE << >>

\* x,y,width,height to the corner pairs x1,y1,x2,y2 of odiff.
convertIgnoreRegions(rs) ==
    [k \in 1..Len(rs) |->
        [x1 |-> rs[k].x, y1 |-> rs[k].y,
         x2 |-> rs[k].x + rs[k].width, y2 |-> rs[k].y + rs[k].height]]

\* The ignore-region part of the options compareWithOdiff hands to odiff:
\* compareImage passes validRegions when there is one and undefined
\* otherwise, compareWithOdiff adds the key ignoreRegions only for a
\* non-empty list.
odiffOptionsOf(opt) ==
    LET valid == validRegions(opt)
        passed == IF Len(valid) > 0 THEN Defined(valid) ELSE Undefined
    IN  IF passed.given /\ Len(passed.regions) > 0
        THEN [hasIgnoreRegions |-> TRUE,
              ignoreRegions |-> convertIgnoreRegions(passed.regions)]
        ELSE [hasIgnoreRegions |-> FALSE, ignoreRegions |-> << >>]

InitCompare ==
    /\ ignoreRegions = Undefined
    /\ odiffOptions = << >>
    /\ listing \in Listings(MaxFiles)
    /\ screenshots = << >>
    /\ comparisonResults = << >>
    /\ odiffCalls = << >>
    /\ completed = << >>
    /\ cmpResult = [total |-> 0, matches |-> 0, differences |-> 0,
                    missingBaselines |-> 0, details |-> << >>]
    /\ cmpPc = "start"
    /\ ImageIdle
    /\ FlagIdle
    /\ CliIdle
    /\ WsIdle

\* readdirSync throws (the screenshots directory does not exist): the catch
\* block logs and rethrows, compareScreenshots rejects.
ReaddirThrows ==
    /\ cmpPc = "start"
    /\ listing = << >>
    /\ cmpPc' = "rejected"
    /\ UNCHANGED <<ignoreRegions, odiffOptions, listing, screenshots, comparisonResults,
                   odiffCalls, completed, cmpResult>>
    /\ UNCHANGED nonCmpVars

\* The listing is filtered and screenshots.map(compareImage) starts every
\* comparison: each call runs up to its first await, so a file without
\* baseline is settled at once and odiff is invoked for the others, in the
\* order of the listing.
StartComparisons ==
    /\ cmpPc = "start"
    /\ LET shots == SelectSeq(listing, isScreenshotFile)
           idx == [i \in 1..Len(shots) |-> i]
           compared(i) == hasBaseline(shots[i])
       IN  /\ screenshots' = shots
           /\ cmpResult' = [cmpResult EXCEPT !.total = Len(shots)]
           /\ comparisonResults' =
                 [i \in 1..Len(shots) |->
                     IF hasBaseline(shots[i]) THEN PendingSlot(shots[i])
                     ELSE Detail(shots[i], "missing-baseline", NoPath)]
           /\ odiffCalls' = SelectSeq(idx, compared)
           /\ odiffOptions' =
                 [k \in 1..Len(SelectSeq(idx, compared)) |-> odiffOptionsOf(ignoreRegions)]
    /\ cmpPc' = "awaiting"
    /\ UNCHANGED <<ignoreRegions, listing, completed>>
    /\ UNCHANGED nonCmpVars

inFlight(i) ==
    /\ \E k \in 1..Len(odiffCalls) : odiffCalls[k] = i
    /\ \A k \in 1..Len(completed) : completed[k] # i

\* The odiff call of screenshot i resolves.
OdiffResolves(i) ==
    /\ cmpPc = "awaiting"
    /\ inFlight(i)
    /\ screenshots[i].state \in {"match", "differ"}
    /\ comparisonResults' = settle(comparisonResults, i, detailOfAnswer(screenshots[i]))
    /\ completed' = Append(completed, i)
    /\ UNCHANGED <<ignoreRegions, odiffOptions, listing, screenshots, odiffCalls, cmpResult, cmpPc>>
    /\ UNCHANGED nonCmpVars

\* OdiffThrows whose error is not caught by compareImage: Promise.all and
\* with it compareScreenshots reject.
OdiffThrows_Rejects(i) ==
    /\ cmpPc = "awaiting"
    /\ inFlight(i)
    /\ screenshots[i].state = "throws"
    /\ cmpPc' = "rejected"
    /\ UNCHANGED <<ignoreRegions, odiffOptions, listing, screenshots, comparisonResults,
                   odiffCalls, completed, cmpResult>>
    /\ UNCHANGED nonCmpVars

\* The odiff call of screenshot i rejects: compareWithOdiff logs and
\* rethrows, the catch block of compareImage returns status 'differ'.
OdiffThrows(i) ==
    /\ cmpPc = "awaiting"
    /\ inFlight(i)
    /\ screenshots[i].state = "throws"
    /\ comparisonResults' = settle(comparisonResults, i, detailOfError(screenshots[i]))
    /\ completed' = Append(completed, i)
    /\ UNCHANGED <<ignoreRegions, odiffOptions, listing, screenshots, odiffCalls, cmpResult, cmpPc>>
    /\ UNCHANGED nonCmpVars

\* Every comparison has settled: Promise.all resolves, the results are
\* pushed and counted, compareScreenshots returns.
CollectResults ==
    /\ cmpPc = "awaiting"
    /\ Len(completed) = Len(odiffCalls)
    /\ cmpResult' = tally(cmpResult, comparisonResults)
    /\ cmpPc' = "resolved"
    /\ UNCHANGED <<ignoreRegions, odiffOptions, listing, screenshots, comparisonResults,
                   odiffCalls, completed>>
    /\ UNCHANGED nonCmpVars

NextCompare ==
    \/ ReaddirThrows
    \/ StartComparisons
    \/ \E i \in 1..Len(screenshots) : OdiffResolves(i)
    \/ \E i \in 1..Len(screenshots) : OdiffThrows(i)
    \/ CollectResults

SpecCompare == InitCompare /\ [][NextCompare]_vars

\* Runs of compareScreenshots over one or two image files with the option
\* ignoreRegions given or not.
InitRegions ==
    /\ ignoreRegions \in
          { Undefined } \cup { Defined(rs) : rs \in IgnoreRegionLists(MaxIgnoreRegions) }
    /\ odiffOptions = << >>
    /\ listing \in { l \in Listings(2) : \A i \in 1..Len(l) : l[i].ext = "png" }
    /\ screenshots = << >>
    /\ comparisonResults = << >>
    /\ odiffCalls = << >>
    /\ completed = << >>
    /\ cmpResult = [total |-> 0, matches |-> 0, differences |-> 0,
                    missingBaselines |-> 0, details |-> << >>]
    /\ cmpPc = "start"
    /\ ImageIdle
    /\ FlagIdle
    /\ CliIdle
    /\ WsIdle

SpecRegions == InitRegions /\ [][NextCompare]_vars

-----------------------------------------------------------------------------
(* The commands screenshot-stories, screenshot-stories-ws and              *)
(* compare-screenshots.                                                    *)

Commands == { "screenshot-stories", "screenshot-stories-ws", "compare-screenshots" }

\* Tolerances are counted in tenths of a percent: 25 is 2.5.
DefaultTolerance == 25

\* The values given with -t / --tolerance.
ToleranceValues == { 0, 25, 50 }

\* args["--tolerance"]: undefined when the option is absent.
Absent == [given |-> FALSE, value |-> 0]
Given(v) == [given |-> TRUE, value |-> v]
ToleranceArgs == { Absent } \cup { Given(v) : v \in ToleranceValues }

\* The options a command accepts; --skip-generate exists in screenshot-stories
\* only, --skip-test / --skip-snapshot and --skip-compare in both story
\* commands.
ArgsOf(cmd) ==
    { a \in [updateBaseline : BOOLEAN, skipGenerate : BOOLEAN,
             skipCapture : BOOLEAN, skipCompare : BOOLEAN,
             tolerance : ToleranceArgs] :
        /\ cmd # "screenshot-stories" => ~a.skipGenerate
        /\ cmd = "compare-screenshots" => (~a.skipCapture /\ ~a.skipCompare) }

\* args["--tolerance"] || 2.5: undefined and 0 are falsy.
orDefault(t, d) == IF t.given /\ t.value # 0 THEN t.value ELSE d

NotPassed == [passed |-> FALSE, value |-> 0]
Passed(v) == [passed |-> TRUE, value |-> v]

\* process.exit(code) or the end of run.
Exit(code) ==
    /\ exitCode' = code
    /\ cliPc' = "exited"

InitCli ==
    /\ command \in Commands
    /\ args \in ArgsOf(command)
    /\ phases = << >>
    /\ passedTolerance = NotPassed
    /\ exitCode = "running"
    /\ disk \in [screenshotsDir : BOOLEAN, baselineDir : BOOLEAN,
                 testFile : BOOLEAN, baselineWritten : {FALSE}, copied : {FALSE}]
    /\ cliPc = (CASE command = "screenshot-stories" -> "generate"
                  [] command = "screenshot-stories-ws" -> "capture"
                  [] command = "compare-screenshots" -> "update")
    /\ ImageIdle
    /\ FlagIdle
    /\ CmpIdle
    /\ WsIdle

\* screenshot-stories, step 1: generate the Maestro test file.
CliGenerate ==
    /\ cliPc = "generate"
    /\ IF args.skipGenerate
       THEN /\ cliPc' = "capture"
            /\ UNCHANGED <<phases, disk, exitCode>>
       ELSE \E success \in BOOLEAN :
               /\ phases' = Append(phases, "generate")
               /\ IF success
                  THEN /\ disk' = [disk EXCEPT !.testFile = TRUE]
                       /\ cliPc' = "capture"
                       /\ UNCHANGED exitCode
                  ELSE /\ Exit("1")
                       /\ UNCHANGED disk
    /\ UNCHANGED <<command, args, passedTolerance>>
    /\ UNCHANGED nonCliVars

\* The capture step: run the Maestro test (a failing test is logged and the
\* run continues) or take the screenshots over the WebSocket (a failure
\* exits with 1).
CliCapture ==
    /\ cliPc = "capture"
    /\ IF args.skipCapture
       THEN /\ cliPc' = "update"
            /\ UNCHANGED <<phases, disk, exitCode>>
       ELSE IF command = "screenshot-stories" /\ ~disk.testFile
       THEN /\ Exit("1")
            /\ UNCHANGED <<phases, disk>>
       ELSE \E success \in BOOLEAN :
               /\ phases' = Append(phases, "capture")
               /\ disk' = [disk EXCEPT !.screenshotsDir = TRUE]
               /\ IF success \/ command = "screenshot-stories"
                  THEN /\ cliPc' = "update"
                       /\ UNCHANGED exitCode
                  ELSE Exit("1")
    /\ UNCHANGED <<command, args, passedTolerance>>
    /\ UNCHANGED nonCliVars

\* The baseline update. updateBaseline creates the baseline directory, lists
\* the screenshots directory and copies the files; readdirSync throws when
\* the screenshots directory is missing. The story commands test for the
\* directory first and go on to the next step after the update;
\* compare-screenshots exits with 0 after the update and with 1 from its
\* catch block.
CliUpdateBaseline ==
    /\ cliPc = "update"
    /\ IF ~args.updateBaseline
       THEN /\ cliPc' = "compare"
            /\ UNCHANGED <<phases, disk, exitCode>>
       ELSE IF command # "compare-screenshots" /\ ~disk.screenshotsDir
       THEN /\ Exit("1")
            /\ UNCHANGED <<phases, disk>>
       ELSE \E copies \in BOOLEAN :
               LET done == copies /\ disk.screenshotsDir
               IN  /\ phases' = Append(phases, "update")
                   /\ disk' = [disk EXCEPT !.baselineDir = TRUE,
                                           !.baselineWritten = TRUE,
                                           !.copied = done]
                   /\ IF ~done THEN Exit("1")
                      ELSE IF command = "compare-screenshots" THEN Exit("0")
                      ELSE /\ cliPc' = "compare"
                           /\ UNCHANGED exitCode
    /\ UNCHANGED <<command, args, passedTolerance>>
    /\ UNCHANGED nonCliVars

\* The outcomes of compareScreenshots seen by a command.
CompareOutcomes == { "match", "differ", "empty", "throws" }

\* The exit code after compareScreenshots: 1 for differences and for an
\* error; compare-screenshots also exits with 1 when nothing was compared.
exitAfterCompare(cmd, outcome) ==
    IF outcome \in {"differ", "throws"} THEN "1"
    ELSE IF outcome = "empty" /\ cmd = "compare-screenshots" THEN "1"
    ELSE "0"

\* CliCompare whose guard does not look at --update-baseline.
CliCompare_IgnoresUpdate ==
    /\ cliPc = "compare"
    /\ IF command # "compare-screenshots" /\ args.skipCompare
       THEN /\ Exit("0")
            /\ UNCHANGED <<phases, passedTolerance>>
       ELSE \E outcome \in CompareOutcomes :
               /\ phases' = phases \o <<"clearDiffs", "compare">>
               /\ passedTolerance' = Passed(orDefault(args.tolerance, DefaultTolerance))
               /\ Exit(exitAfterCompare(command, outcome))
    /\ UNCHANGED <<command, args, disk>>
    /\ UNCHANGED nonCliVars

\* The comparison. The story commands skip it with --skip-compare or
\* --update-baseline; otherwise they clear the diffs directory, exit with 1
\* without screenshots directory and with 0 without baseline directory, and
\* call compareScreenshots. compare-screenshots calls it at once.
CliCompare ==
    /\ cliPc = "compare"
    /\ IF command # "compare-screenshots" /\ (args.skipCompare \/ args.updateBaseline)
       THEN /\ Exit("0")
            /\ UNCHANGED <<phases, passedTolerance>>
       ELSE IF command # "compare-screenshots" /\ ~disk.screenshotsDir
       THEN /\ phases' = Append(phases, "clearDiffs")
            /\ Exit("1")
            /\ UNCHANGED passedTolerance
       ELSE IF command # "compare-screenshots" /\ ~disk.baselineDir
       THEN /\ phases' = Append(phases, "clearDiffs")
            /\ Exit("0")
            /\ UNCHANGED passedTolerance
       ELSE \E outcome \in CompareOutcomes :
               /\ ~disk.screenshotsDir => outcome = "throws"
               /\ phases' = (IF command = "compare-screenshots"
                             THEN Append(phases, "compare")
                             ELSE phases \o <<"clearDiffs", "compare">>)
               /\ passedTolerance' = Passed(orDefault(args.tolerance, DefaultTolerance))
               /\ Exit(exitAfterCompare(command, outcome))
    /\ UNCHANGED <<command, args, disk>>
    /\ UNCHANGED nonCliVars

NextCli ==
    \/ CliGenerate
    \/ CliCapture
    \/ CliUpdateBaseline
    \/ CliCompare

SpecCli == InitCli /\ [][NextCli]_vars

-----------------------------------------------------------------------------
(* snapshotStorybookViaWebsocket.                                          *)

\* The run has at most this many stories, the model lets at most this many
\* events arrive that resolve nothing, and lets the ping callback run at most
\* this often.
MaxEntries == 2
MaxStrayEvents == 2
MaxPings == 2

\* maxRetries: number = 3
maxRetries == 3

StoryIds == <<"story-1", "story-2", "story-3", "story-4">>
EventKinds == { "CURRENT_STORY_WAS_SET", "STORY_RENDERED" }

\* The clients of the server: the channel of this process and the app.
ClientIds == { "manager", "app" }

\* The story ids an arriving event may carry: those of the run and one of a
\* story that is not part of it.
EventIds == { entries[i] : i \in 1..Len(entries) } \cup { "story-unknown" }

Settled == snapPc \in {"resolved", "rejected"}

\* closeAll that does not clear the interval.
closeAll_LeavesInterval ==
    /\ pingInterval' = pingInterval
    /\ wssState' = "closed"
    /\ clients' = [c \in DOMAIN clients |->
                      IF clients[c] = "open" THEN "closed" ELSE clients[c]]

\* closeAll: clearInterval when the interval was started, wss.close(), and
\* close() on every client of the server.
closeAll ==
    /\ pingInterval' = (IF pingInterval = "running" THEN "cleared" ELSE pingInterval)
    /\ wssState' = "closed"
    /\ clients' = [c \in DOMAIN clients |->
                      IF clients[c] = "open" THEN "closed" ELSE clients[c]]

\* An error reaches the catch block: closeAll(1) releases the resources and
\* throws, the promise rejects.
Fails(step) ==
    /\ failedAt' = step
    /\ closeAll
    /\ snapPc' = "rejected"

InitSnapshot ==
    /\ \E n \in 0..MaxEntries : entries = SubSeq(StoryIds, 1, n)
    /\ snapPc = "listen"
    /\ entryIdx = 0
    /\ attempt = 0
    /\ timeouts = 0
    /\ emitted = << >>
    /\ confirmed = << >>
    /\ strayEvents = 0
    /\ snapshots = << >>
    /\ failedAt = "none"
    /\ pingInterval = "null"
    /\ wssState = "open"
    /\ clients = [c \in ClientIds |-> "none"]
    /\ pingTicks = 0
    /\ pingedAfterSettle = FALSE
    /\ RelayIdle
    /\ ImageIdle
    /\ FlagIdle
    /\ CmpIdle
    /\ CliIdle

\* The server is listening.
ServerListening ==
    /\ snapPc = "listen"
    /\ snapPc' = "channel"
    /\ UNCHANGED <<entries, entryIdx, attempt, timeouts, emitted, confirmed, strayEvents,
                   snapshots, failedAt, pingInterval, wssState, clients, pingTicks,
                   pingedAfterSettle>>
    /\ UNCHANGED nonSnapVars

\* The channel is created and the ping interval is started; an error while
\* creating the channel reaches the catch block before the interval exists.
CreateChannel ==
    /\ snapPc = "channel"
    /\ \E ok \in BOOLEAN :
          IF ok
          THEN /\ pingInterval' = "running"
               /\ snapPc' = "boot"
               /\ UNCHANGED <<failedAt, wssState, clients>>
          ELSE Fails("channel")
    /\ UNCHANGED <<entries, entryIdx, attempt, timeouts, emitted, confirmed, strayEvents,
                   snapshots, pingTicks, pingedAfterSettle>>
    /\ UNCHANGED nonSnapVars

\* bootBestSimulator, bootstatus, overrideStatusBar, get_app_container,
\* terminate and launch or openurl: each exec may throw.
PrepareSimulator ==
    /\ snapPc = "boot"
    /\ \E ok \in BOOLEAN :
          IF ok
          THEN /\ snapPc' = "wait"
               /\ UNCHANGED <<failedAt, pingInterval, wssState, clients>>
          ELSE Fails("simulator")
    /\ UNCHANGED <<entries, entryIdx, attempt, timeouts, emitted, confirmed, strayEvents,
                   snapshots, pingTicks, pingedAfterSettle>>
    /\ UNCHANGED nonSnapVars

\* Promise.race of the wait time and the first STORY_RENDERED resolves;
\* snapshotAllStories starts with the first entry.
StorybookReady ==
    /\ snapPc = "wait"
    /\ snapPc' = "loop"
    /\ entryIdx' = 1
    /\ UNCHANGED <<entries, attempt, timeouts, emitted, confirmed, strayEvents,
                   snapshots, failedAt, pingInterval, wssState, clients, pingTicks,
                   pingedAfterSettle>>
    /\ UNCHANGED nonSnapVars

\* setStoryWithRetry is called for the current entry: the first attempt
\* emits SET_CURRENT_STORY and registers the two listeners and the timeout.
BeginEntry ==
    /\ snapPc = "loop"
    /\ entryIdx <= Len(entries)
    /\ attempt' = 1
    /\ timeouts' = 0
    /\ emitted' = Append(emitted, entries[entryIdx])
    /\ snapPc' = "attempt"
    /\ UNCHANGED <<entries, entryIdx, confirmed, strayEvents, snapshots, failedAt,
                   pingInterval, wssState, clients, pingTicks, pingedAfterSettle>>
    /\ UNCHANGED nonSnapVars

\* EventArrives whose listeners do not compare the story id.
EventArrives_AnyId(id, kind) ==
    /\ ~Settled
    /\ IF snapPc = "attempt"
       THEN /\ confirmed' = Append(confirmed, [id |-> id, kind |-> kind,
                                               entry |-> entryIdx, attempt |-> attempt])
            /\ snapPc' = "shot"
            /\ UNCHANGED strayEvents
       ELSE /\ strayEvents < MaxStrayEvents
            /\ strayEvents' = strayEvents + 1
            /\ UNCHANGED <<confirmed, snapPc>>
    /\ UNCHANGED <<entries, entryIdx, attempt, timeouts, emitted, snapshots, failedAt,
                   pingInterval, wssState, clients, pingTicks, pingedAfterSettle>>
    /\ UNCHANGED nonSnapVars

\* A CURRENT_STORY_WAS_SET or STORY_RENDERED event arrives on the channel.
\* During an attempt the listeners compare its story id with entry.id: on a
\* match the timeout is cleared, both listeners are removed and the attempt
\* resolves. Every other event resolves nothing.
EventArrives(id, kind) ==
    /\ ~Settled
    /\ IF snapPc = "attempt" /\ entries[entryIdx] = id
       THEN /\ confirmed' = Append(confirmed, [id |-> id, kind |-> kind,
                                               entry |-> entryIdx, attempt |-> attempt])
            /\ snapPc' = "shot"
            /\ UNCHANGED strayEvents
       ELSE /\ strayEvents < MaxStrayEvents
            /\ strayEvents' = strayEvents + 1
            /\ UNCHANGED <<confirmed, snapPc>>
    /\ UNCHANGED <<entries, entryIdx, attempt, timeouts, emitted, snapshots, failedAt,
                   pingInterval, wssState, clients, pingTicks, pingedAfterSettle>>
    /\ UNCHANGED nonSnapVars

\* AttemptTimesOut that gives up only after one more attempt.
AttemptTimesOut_OneMore ==
    /\ snapPc = "attempt"
    /\ timeouts' = timeouts + 1
    /\ IF attempt = maxRetries + 1
       THEN Fails("setStory")
       ELSE /\ snapPc' = "retry"
            /\ UNCHANGED <<failedAt, pingInterval, wssState, clients>>
    /\ UNCHANGED <<entries, entryIdx, attempt, emitted, confirmed, strayEvents, snapshots,
                   pingTicks, pingedAfterSettle>>
    /\ UNCHANGED nonSnapVars

\* The 5000ms timeout of the attempt fires: the listeners are removed and the
\* attempt rejects. After the last attempt the error is rethrown and reaches
\* the catch block; otherwise setStoryWithRetry sleeps before the next one.
AttemptTimesOut ==
    /\ snapPc = "attempt"
    /\ timeouts' = timeouts + 1
    /\ IF attempt = maxRetries
       THEN Fails("setStory")
       ELSE /\ snapPc' = "retry"
            /\ UNCHANGED <<failedAt, pingInterval, wssState, clients>>
    /\ UNCHANGED <<entries, entryIdx, attempt, emitted, confirmed, strayEvents, snapshots,
                   pingTicks, pingedAfterSettle>>
    /\ UNCHANGED nonSnapVars

\* The sleep between two attempts ends: the next attempt emits
\* SET_CURRENT_STORY again.
RetryAttempt ==
    /\ snapPc = "retry"
    /\ attempt' = attempt + 1
    /\ emitted' = Append(emitted, entries[entryIdx])
    /\ snapPc' = "attempt"
    /\ UNCHANGED <<entries, entryIdx, timeouts, confirmed, strayEvents, snapshots, failedAt,
                   pingInterval, wssState, clients, pingTicks, pingedAfterSettle>>
    /\ UNCHANGED nonSnapVars

\* setStoryWithRetry has returned: the screenshot command for
\* <entry.id>.png runs; when it throws the error reaches the catch block.
TakeScreenshot ==
    /\ snapPc = "shot"
    /\ \E ok \in BOOLEAN :
          IF ok
          THEN /\ snapshots' = Append(snapshots, entries[entryIdx])
               /\ snapPc' = "settle"
               /\ UNCHANGED <<failedAt, pingInterval, wssState, clients>>
          ELSE /\ Fails("screenshot")
               /\ UNCHANGED snapshots
    /\ UNCHANGED <<entries, entryIdx, attempt, timeouts, emitted, confirmed, strayEvents,
                   pingTicks, pingedAfterSettle>>
    /\ UNCHANGED nonSnapVars

\* The delay after a screenshot ends; the loop goes to the next entry.
NextEntry ==
    /\ snapPc = "settle"
    /\ entryIdx' = entryIdx + 1
    /\ snapPc' = "loop"
    /\ UNCHANGED <<entries, attempt, timeouts, emitted, confirmed, strayEvents, snapshots,
                   failedAt, pingInterval, wssState, clients, pingTicks, pingedAfterSettle>>
    /\ UNCHANGED nonSnapVars

\* The loop is over: the app is terminated (errors ignored), closeAll(0)
\* runs and the promise resolves.
FinishRun ==
    /\ snapPc = "loop"
    /\ entryIdx > Len(entries)
    /\ closeAll
    /\ snapPc' = "resolved"
    /\ UNCHANGED <<entries, entryIdx, attempt, timeouts, emitted, confirmed, strayEvents,
                   snapshots, failedAt, pingTicks, pingedAfterSettle>>
    /\ UNCHANGED nonSnapVars

\* The interval callback runs: a ping goes to every client that is open.
Ping ==
    /\ pingInterval = "running"
    /\ pingTicks < MaxPings
    /\ pingTicks' = pingTicks + 1
    /\ pingedAfterSettle' =
          (pingedAfterSettle \/ (Settled /\ \E c \in DOMAIN clients : clients[c] = "open"))
    /\ UNCHANGED <<entries, snapPc, entryIdx, attempt, timeouts, emitted, confirmed,
                   strayEvents, snapshots, failedAt, pingInterval, wssState, clients>>
    /\ UNCHANGED nonSnapVars

\* A client connects to the server, which is possible until wss.close().
ClientConnects(c) ==
    /\ wssState = "open"
    /\ clients[c] = "none"
    /\ clients' = [clients EXCEPT ![c] = "open"]
    /\ UNCHANGED <<entries, snapPc, entryIdx, attempt, timeouts, emitted, confirmed,
                   strayEvents, snapshots, failedAt, pingInterval, wssState, pingTicks,
                   pingedAfterSettle>>
    /\ UNCHANGED nonSnapVars

\* A client closes its connection and leaves wss.clients.
ClientLeaves(c) ==
    /\ clients[c] = "open"
    /\ clients' = [clients EXCEPT ![c] = "gone"]
    /\ UNCHANGED <<entries, snapPc, entryIdx, attempt, timeouts, emitted, confirmed,
                   strayEvents, snapshots, failedAt, pingInterval, wssState, pingTicks,
                   pingedAfterSettle>>
    /\ UNCHANGED nonSnapVars

NextSnapshot ==
    \/ ServerListening
    \/ CreateChannel
    \/ PrepareSimulator
    \/ StorybookReady
    \/ BeginEntry
    \/ \E id \in EventIds, kind \in EventKinds : EventArrives(id, kind)
    \/ AttemptTimesOut
    \/ RetryAttempt
    \/ TakeScreenshot
    \/ NextEntry
    \/ FinishRun
    \/ Ping
    \/ \E c \in ClientIds : ClientConnects(c)
    \/ \E c \in ClientIds : ClientLeaves(c)

SpecSnapshot == InitSnapshot /\ [][NextSnapshot]_vars

-----------------------------------------------------------------------------
(* The message relay of the WebSocket server.                              *)

\* The clients send at most this many messages in all.
MaxMessages == 3

\* The text of a message: JSON, written compactly or with white space, or
\* text that is not JSON. The value names its sender and its number.
JsonText(value, spacing) == [json |-> TRUE, value |-> value, spacing |-> spacing]
OtherText(value) == [json |-> FALSE, value |-> value, spacing |-> "none"]

\* JSON.parse(data.toString()): the value, or a SyntaxError.
jsonParse(text) == [ok |-> text.json, value |-> text.value]

\* JSON.stringify(json): the compact text of the value.
jsonStringify(value) == JsonText(value, "compact")

\* The clients in wss.clients.
connectedSockets == { c \in DOMAIN sockets : sockets[c].state = "open" }

messagesSent ==
    LET RECURSIVE sum(_)
        sum(S) == IF S = {} THEN 0
                  ELSE LET c == CHOOSE x \in S : TRUE
                       IN  sockets[c].sent + sum(S \ {c})
    IN  sum(DOMAIN sockets)

InitRelay ==
    /\ sockets = [c \in ClientIds |-> [state |-> "none", sent |-> 0]]
    /\ outbox = [c \in ClientIds |-> << >>]
    /\ inbox = [c \in ClientIds |-> << >>]
    /\ relayed = << >>
    /\ parseErrors = 0
    /\ SnapIdle
    /\ ImageIdle
    /\ FlagIdle
    /\ CmpIdle
    /\ CliIdle

\* wss.on("connection"): a client connects and gets its two listeners.
SocketConnects(c) ==
    /\ sockets[c].state = "none"
    /\ sockets' = [sockets EXCEPT ![c].state = "open"]
    /\ UNCHANGED <<outbox, inbox, relayed, parseErrors>>
    /\ UNCHANGED nonRelayVars

\* A client closes its connection after its messages were received.
SocketLeaves(c) ==
    /\ sockets[c].state = "open"
    /\ outbox[c] = << >>
    /\ sockets' = [sockets EXCEPT ![c].state = "gone"]
    /\ UNCHANGED <<outbox, inbox, relayed, parseErrors>>
    /\ UNCHANGED nonRelayVars

\* A connected client sends its next message to the server.
ClientSends(c, spacing) ==
    /\ sockets[c].state = "open"
    /\ messagesSent < MaxMessages
    /\ LET value == [from |-> c, n |-> sockets[c].sent + 1]
           text == IF spacing = "none" THEN OtherText(value) ELSE JsonText(value, spacing)
       IN  outbox' = [outbox EXCEPT ![c] = Append(@, text)]
    /\ sockets' = [sockets EXCEPT ![c].sent = @ + 1]
    /\ UNCHANGED <<inbox, relayed, parseErrors>>
    /\ UNCHANGED nonRelayVars

\* ServerReceives that relays to every client but the sender.
ServerReceives_NotToSender(c) ==
    /\ Len(outbox[c]) > 0
    /\ outbox' = [outbox EXCEPT ![c] = Tail(@)]
    /\ LET json == jsonParse(Head(outbox[c]))
       IN  IF json.ok
           THEN /\ inbox' = [d \in DOMAIN inbox |->
                                IF d \in connectedSockets \ {c}
                                THEN Append(inbox[d], jsonStringify(json.value))
                                ELSE inbox[d]]
                /\ relayed' = Append(relayed, [value |-> json.value,
                                               to |-> connectedSockets \ {c}])
                /\ UNCHANGED parseErrors
           ELSE /\ parseErrors' = parseErrors + 1
                /\ UNCHANGED <<inbox, relayed>>
    /\ UNCHANGED sockets
    /\ UNCHANGED nonRelayVars

\* ws.on("message"): the handler parses the oldest message of client c that
\* is under way and sends the re-serialised value to every client in
\* wss.clients; a message that does not parse is logged.
ServerReceives(c) ==
    /\ Len(outbox[c]) > 0
    /\ outbox' = [outbox EXCEPT ![c] = Tail(@)]
    /\ LET json == jsonParse(Head(outbox[c]))
       IN  IF json.ok
           THEN /\ inbox' = [d \in DOMAIN inbox |->
                                IF d \in connectedSockets
                                THEN Append(inbox[d], jsonStringify(json.value))
                                ELSE inbox[d]]
                /\ relayed' = Append(relayed, [value |-> json.value,
                                               to |-> connectedSockets])
                /\ UNCHANGED parseErrors
           ELSE /\ parseErrors' = parseErrors + 1
                /\ UNCHANGED <<inbox, relayed>>
    /\ UNCHANGED sockets
    /\ UNCHANGED nonRelayVars

NextRelay ==
    \/ \E c \in ClientIds : SocketConnects(c)
    \/ \E c \in ClientIds : SocketLeaves(c)
    \/ \E c \in ClientIds, spacing \in {"compact", "spaced", "none"} : ClientSends(c, spacing)
    \/ \E c \in ClientIds : ServerReceives(c)

SpecRelay == InitRelay /\ [][NextRelay]_vars

-----------------------------------------------------------------------------
(* Vocabulary of the properties.                                           *)

\* findBoundingRectangles has returned to analyzeDiffImage.
Returned == pc = "done" /\ ~caught /\ Len(diffPixels) > 0

\* The list `regions` has been built.
Collected == pc \in {"filter", "slice", "done"} /\ ~caught /\ Len(diffPixels) > 0

Area(r) == r.width * r.height

\* Region a lies inside region b.
Inside(a, b) ==
    /\ b.x <= a.x
    /\ b.y <= a.y
    /\ b.x + b.width >= a.x + a.width
    /\ b.y + b.height >= a.y + a.height

\* Pixel p lies inside region r.
Covers(r, p) ==
    /\ r.x <= p.x /\ p.x < r.x + r.width
    /\ r.y <= p.y /\ p.y < r.y + r.height

PixelIdx == 1..Len(diffPixels)

\* r is the tight bounding box of the diff pixels: it covers all of them and
\* each of its four sides holds one.
IsTightBox(r) ==
    /\ \A i \in PixelIdx : Covers(r, diffPixels[i])
    /\ \E i \in PixelIdx : diffPixels[i].x = r.x
    /\ \E i \in PixelIdx : diffPixels[i].x = r.x + r.width - 1
    /\ \E i \in PixelIdx : diffPixels[i].y = r.y
    /\ \E i \in PixelIdx : diffPixels[i].y = r.y + r.height - 1

\* The 10px bands that hold a diff pixel, and the pixels of and near a band.
BandStarts == { 10 * (diffPixels[i].y \div 10) : i \in PixelIdx }
InBand(b) == { i \in PixelIdx : b <= diffPixels[i].y /\ diffPixels[i].y < b + 10 }
NearBand(b) ==
    { i \in PixelIdx : b - 15 < diffPixels[i].y /\ diffPixels[i].y < b + 15 }

\* A band holding more than 10% of all diff pixels.
DenseBand(b) == 10 * Cardinality(InBand(b)) > Len(diffPixels)

\* The values of a list.
Range(s) == { s[i] : i \in 1..Len(s) }

TypeOK ==
    /\ pc \in {"idle", "read", "scan", "scanned", "filter", "slice", "done", "rejected"}
    /\ caught \in BOOLEAN

-----------------------------------------------------------------------------
\* C1: no region of the returned list is fully contained in another region of
\* the same list.
NoRegionInsideAnother ==
    Returned =>
        \A i, j \in 1..Len(result) : i # j => ~Inside(result[i], result[j])

\* A run in which the containment filter removed a large candidate and at
\* least two regions were returned.
NoRegionInsideAnother_Witness ==
    /\ Returned
    /\ Len(result) >= 2
    /\ \E k \in 1..Len(regions) :
          /\ Area(regions[k]) > 100
          /\ regions[k] \notin Range(uniqueRegions)

\* C2: every returned region lies inside the image.
RegionsInsideImage ==
    Returned =>
        \A i \in 1..Len(result) :
            /\ result[i].x >= 0
            /\ result[i].y >= 0
            /\ result[i].width >= 0
            /\ result[i].height >= 0
            /\ result[i].x + result[i].width <= png.width
            /\ result[i].y + result[i].height <= png.height

\* A run whose image has diff pixels within five columns of its right edge
\* and enough of them for a band region.
RegionsInsideImage_Reached ==
    /\ Returned
    /\ Len(regions) >= 2
    /\ \E i \in PixelIdx : diffPixels[i].x >= png.width - 5

\* All diff pixels lie in one small cluster: a box of at most 11 x 11 pixels.
SingleSmallCluster ==
    /\ Len(diffPixels) > 0
    /\ \A i, j \in PixelIdx :
          /\ diffPixels[i].x - diffPixels[j].x <= 10
          /\ diffPixels[i].y - diffPixels[j].y <= 10

\* The overall bounding box survives both filters: its area exceeds 100 and
\* no band candidate of area above 100 contains it.
BoxSurvives ==
    /\ Area(regions[1]) > 100
    /\ \A k \in 2..Len(regions) :
          ~(Area(regions[k]) > 100 /\ Inside(regions[1], regions[k]))

HasBandExtent(r, b) ==
    LET ys == { diffPixels[i].y : i \in NearBand(b) }
        lo == CHOOSE y \in ys : \A z \in ys : y <= z
        hi == CHOOSE y \in ys : \A z \in ys : y >= z
    IN  /\ r.y = (IF lo - 5 < 0 THEN 0 ELSE lo - 5)
        /\ r.height = (IF hi - lo + 11 > png.height THEN png.height ELSE hi - lo + 11)
        /\ r.y >= b - 19
        /\ r.y + r.height <= b + 25
        /\ \A i \in NearBand(b) : Covers(r, diffPixels[i])

\* r spans band b widened by 15 rows on each side, clamped to the image.
CoversBandPlusMinus15(r, b) ==
    /\ r.y <= (IF b - 15 < 0 THEN 0 ELSE b - 15)
    /\ r.y + r.height >= (IF b + 25 > png.height THEN png.height ELSE b + 25)

\* C4 as stated: a band with more than 10% of the diff pixels gives a band
\* region, returned next to the overall box, that spans the band +/- 15 rows.
DenseBandRegion_AsStated ==
    Returned =>
        \A b \in BandStarts :
            DenseBand(b) =>
                \E i, j \in 1..Len(result) :
                    /\ i # j
                    /\ IsTightBox(result[i])
                    /\ CoversBandPlusMinus15(result[j], b)

\* C4: a band with more than 10% of the diff pixels and more than 50 diff
\* pixels within 15 rows of its start gives a band candidate after the overall
\* box; its top is the first row of the nearby pixels less 5, clamped at 0,
\* and its height their row span plus 11, capped at the image height (so it
\* lies within rows b-19 .. b+24); it is returned unless its area is at most 100, another
\* large candidate contains it, or more than five regions survive.
DenseBandRegion ==
    Collected =>
        \A b \in BandStarts :
            (DenseBand(b) /\ Cardinality(NearBand(b)) > 50) =>
                \E k \in 2..Len(regions) :
                    /\ HasBandExtent(regions[k], b)
                    /\ IsTightBox(regions[1])
                    /\ Returned =>
                        \/ regions[k] \in Range(result)
                        \/ Area(regions[k]) <= 100
                        \/ \E m \in 1..Len(regions) :
                              /\ m # k
                              /\ Area(regions[m]) > 100
                              /\ Inside(regions[k], regions[m])
                        \/ Len(uniqueRegions) > 5

\* A run in which a dense band's region is returned after the overall box.
DenseBandRegion_Witness ==
    /\ Returned
    /\ Len(result) >= 2
    /\ IsTightBox(result[1])
    /\ \E b \in BandStarts :
          /\ DenseBand(b)
          /\ Cardinality(NearBand(b)) > 50
          /\ HasBandExtent(result[2], b)

\* C5 as stated: the overall box is exempt from the area filter, so a
\* non-empty pixel list without a band candidate returns exactly that box.
BoxExemptFromAreaFilter_AsStated ==
    (Returned /\ Len(regions) = 1) =>
        (Len(result) = 1 /\ IsTightBox(result[1]))

\* C5: the overall box passes the area filter like every candidate: a
\* non-empty pixel list without a band candidate returns exactly the box when
\* its area exceeds 100 and the empty list otherwise.
BoxSubjectToAreaFilter ==
    (Returned /\ Len(regions) = 1) =>
        /\ IsTightBox(regions[1])
        /\ Area(regions[1]) > 100 => result = <<regions[1]>>
        /\ Area(regions[1]) <= 100 => result = << >>

\* A run without band candidate whose box is too small and is dropped.
BoxSubjectToAreaFilter_Witness ==
    /\ Returned
    /\ Len(regions) = 1
    /\ Area(regions[1]) <= 100
    /\ result = << >>

\* C6: at most five regions are returned, and when more survive the filters
\* the first five survivors are returned in their order.
AtMostFiveRegions ==
    Returned =>
        /\ Len(result) <= 5
        /\ Len(result) <= Len(uniqueRegions)
        /\ \A i \in 1..Len(result) : result[i] = uniqueRegions[i]
        /\ Len(uniqueRegions) > 5 => Len(result) = 5

\* A run in which more than five regions survive the filters.
AtMostFiveRegions_Witness ==
    /\ Returned
    /\ Len(uniqueRegions) > 5
    /\ Len(result) = 5

\* C7: an image without diff-coloured pixels gives the empty list without
\* entering the rectangle search and without an exception, and the search
\* itself maps the empty pixel list to the empty list.
NoDiffPixelsNoRegions ==
    /\ (pc \in {"scanned", "filter", "slice", "done"} /\ ~caught /\ Len(diffPixels) = 0) =>
          /\ pc \in {"scanned", "done"}
          /\ regions = << >>
          /\ uniqueRegions = << >>
          /\ result = << >>
    /\ findBoundingRectangles(<< >>, png.width, png.height) = << >>
    /\ caught => (file # "png" \/ Len(diffPixels) > 0)

\* A run over an image that has painted pixels, none of them diff-coloured.
NoDiffPixelsNoRegions_Witness ==
    /\ pc = "done"
    /\ ~caught
    /\ png.rects # {}
    /\ Len(diffPixels) = 0
    /\ result = << >>

\* C8: the returned regions keep the order of the candidates: the overall box
\* can only be first, band candidates are in ascending order of band start,
\* and filtering and the cap keep the relative order.
RegionsKeepCandidateOrder ==
    Returned =>
        /\ \A i \in 1..Len(result) : IsTightBox(result[i]) => i = 1
        /\ LET bands == significantBands(diffPixels)
           IN  /\ Len(regions) = Len(bands) + 1
               /\ \A k \in 1..Len(bands) :
                     /\ HasBandExtent(regions[k + 1], bands[k])
                     /\ \A m \in 1..Len(bands) : k < m => bands[k] < bands[m]
        /\ \A i, j \in 1..Len(result) :
              i < j =>
                  \E a, b \in 1..Len(regions) :
                      /\ a < b
                      /\ regions[a] = result[i]
                      /\ regions[b] = result[j]
        /\ \A i, j \in 1..Len(result) :
              (1 < i /\ i < j) => result[i].y <= result[j].y

\* A run that returns the overall box followed by two or more band regions.
RegionsKeepCandidateOrder_Witness ==
    /\ Returned
    /\ Len(result) >= 3
    /\ IsTightBox(result[1])
    /\ result[2].y < result[3].y

\* The 100 x 100 image whose diff pixels are exactly row 90.
Row90Image ==
    /\ png.width = 100
    /\ png.height = 100
    /\ Len(diffPixels) = 100
    /\ \A i \in PixelIdx : diffPixels[i].y = 90

\* C9: for the row-90 image the overall box (0,90,100,1) is not returned and
\* a band region of full width whose rows include row 90 is.
Row90Example ==
    (Returned /\ Row90Image) =>
        /\ DiffRegion(0, 90, 100, 1) \notin Range(result)
        /\ \E i \in 1..Len(result) :
              /\ result[i].x = 0
              /\ result[i].width = 100
              /\ result[i].y <= 90
              /\ 90 < result[i].y + result[i].height
              /\ result[i] # DiffRegion(0, 90, 100, 1)

\* The row-90 image has been processed.
Row90Example_Witness ==
    /\ Returned
    /\ Row90Image
    /\ result = << DiffRegion(0, 85, 100, 11) >>

-----------------------------------------------------------------------------
\* C11: analyzeDiffImage fails by returning the empty list: when the file
\* cannot be read, has no PNG signature, is decoded by neither parser, or a
\* later step throws, the promise resolves to { regions: [] }; it never
\* rejects.
FailureReturnsNoRegions ==
    /\ pc # "rejected"
    /\ caught => (pc = "done" /\ result = << >>)
    /\ (pc = "done" /\ file # "png") => (caught /\ result = << >>)
    /\ (pc \in {"scan", "scanned", "filter", "slice"}) => (file = "png" /\ ~caught)

\* A run over a file that neither parser decodes has ended in the catch block.
FailureReturnsNoRegions_Witness ==
    /\ pc = "done"
    /\ file = "undecodable"
    /\ caught
    /\ result = << >>

\* A run in which a step after decoding threw and the catch block ran.
LaterStepThrows_Reached ==
    /\ pc = "done"
    /\ file = "png"
    /\ caught
    /\ Len(diffPixels) > 0
    /\ result = << >>

\* C12: printing a list of regions with non-negative integer fields as
\* 'x,y,w,h' joined by ';' and parsing the string gives the same regions in
\* the same order.
PrintParseRoundTrip ==
    /\ flagPc = "parsed" => parsed = regionList
    /\ flagPc \in {"detected", "exit"} =>
          parseIgnoreRegions(formatRegions(regionList)) = regionList

\* A list of two regions has been printed and parsed.
PrintParseRoundTrip_Witness ==
    /\ flagPc = "parsed"
    /\ Len(regionList) = 2
    /\ Len(parsed) = 2
    /\ Len(regionsStr) > 15

-----------------------------------------------------------------------------
(* Properties of compareScreenshots.                                       *)

Resolved == cmpPc = "resolved"

\* The screenshot files of the listing, in its order.
ShotsOfListing ==
    LET at == { i \in 1..Len(listing) : listing[i].ext \in {"png", "jpg", "jpeg"} }
    IN  [k \in 1..Cardinality(at) |->
            listing[CHOOSE i \in at : Cardinality({ j \in at : j < i }) = k - 1]]

\* The status a file gets when it is compared on its own.
OwnStatus(f) ==
    CASE f.state = "missing" -> "missing-baseline"
      [] f.state = "match"   -> "match"
      [] f.state = "differ"  -> "differ"
      [] f.state = "throws"  -> "differ"

\* C13: whatever the order in which the comparisons settle, details has one
\* entry per screenshot file, at the position of the file in the listing,
\* with that file's name, the status of its own comparison and, when odiff
\* found a difference, the diff path of that file.
DetailsKeepIdentity ==
    Resolved =>
        LET d == cmpResult.details
            shots == ShotsOfListing
        IN  /\ Len(d) = Len(shots)
            /\ \A i \in 1..Len(d) :
                  /\ d[i].filename = <<shots[i].name, shots[i].ext>>
                  /\ d[i].status = OwnStatus(shots[i])
                  /\ shots[i].state = "differ" =>
                        d[i].diffPath = <<"diffsDir", "diff_", shots[i].name, shots[i].ext>>
                  /\ d[i].diffPath # NoPath =>
                        d[i].diffPath = <<"diffsDir", "diff_", shots[i].name, shots[i].ext>>

\* A run in which a later file settled before an earlier one and their
\* results differ.
DetailsKeepIdentity_Witness ==
    /\ Resolved
    /\ Len(completed) >= 2
    /\ completed[1] > completed[2]
    /\ cmpResult.details[completed[1]].status # cmpResult.details[completed[2]].status

\* C19: when compareScreenshots returns, total = matches + differences +
\* missingBaselines = details.length, each counter is the number of details
\* with its status, and only a 'differ' detail has a diffPath.
CountersConsistent ==
    Resolved =>
        LET d == cmpResult.details
            n(st) == Cardinality({ i \in 1..Len(d) : d[i].status = st })
        IN  /\ cmpResult.total = Len(d)
            /\ cmpResult.total =
                  cmpResult.matches + cmpResult.differences + cmpResult.missingBaselines
            /\ cmpResult.matches = n("match")
            /\ cmpResult.differences = n("differ")
            /\ cmpResult.missingBaselines = n("missing-baseline")
            /\ \A i \in 1..Len(d) :
                  /\ d[i].status \in {"match", "differ", "missing-baseline"}
                  /\ d[i].diffPath # NoPath => d[i].status = "differ"

\* A run that returned with every counter above zero.
CountersConsistent_Witness ==
    /\ Resolved
    /\ cmpResult.matches > 0
    /\ cmpResult.differences > 0
    /\ cmpResult.missingBaselines > 0

\* C20: a comparison that throws does not fail the batch: its screenshot is
\* 'differ' without diffPath and counted in differences, compareScreenshots
\* resolves, and every other screenshot has the status of its own
\* comparison; a screenshot without baseline is 'missing-baseline' and odiff
\* is not invoked for it.
FailureStaysLocal ==
    /\ cmpPc = "rejected" => (listing = << >> /\ screenshots = << >>)
    /\ cmpPc \in {"awaiting", "resolved"} =>
          \A i \in 1..Len(screenshots) :
              (screenshots[i].state = "missing") <=>
                  (\A k \in 1..Len(odiffCalls) : odiffCalls[k] # i)
    /\ Resolved =>
          LET d == cmpResult.details
              failed == { i \in 1..Len(screenshots) : screenshots[i].state = "throws" }
          IN  /\ Len(d) = Len(screenshots)
              /\ \A i \in failed : d[i].status = "differ" /\ d[i].diffPath = NoPath
              /\ cmpResult.differences >= Cardinality(failed)
              /\ \A i \in 1..Len(d) : d[i].status = OwnStatus(screenshots[i])
              /\ \A i \in 1..Len(d) :
                    screenshots[i].state = "missing" =>
                        d[i].status = "missing-baseline"

\* A run that returned although one comparison threw, with a matching and a
\* baseline-less screenshot next to it.
FailureStaysLocal_Witness ==
    /\ Resolved
    /\ \E i, j, k \in 1..Len(screenshots) :
          /\ screenshots[i].state = "throws"
          /\ cmpResult.details[i].status = "differ"
          /\ screenshots[j].state = "match"
          /\ cmpResult.details[j].status = "match"
          /\ screenshots[k].state = "missing"
          /\ cmpResult.details[k].status = "missing-baseline"

-----------------------------------------------------------------------------
(* Properties of the band candidates and of the containment filter.        *)

\* The bands for which the loop pushes a region, stated from the pixels:
\* more than 10% of the diff pixels in the band and more than 50 diff pixels
\* within 15 rows of its start.
QualifyingBands ==
    { b \in BandStarts : DenseBand(b) /\ Cardinality(NearBand(b)) > 50 }

\* The k-th qualifying band from the top of the image.
KthBand(k) ==
    CHOOSE b \in QualifyingBands :
        Cardinality({ c \in QualifyingBands : c < b }) = k - 1

\* C16 as stated: every band candidate belongs to a band that holds more than
\* 10% of the diff pixels and more than 50 diff pixels of its own.
BandNeedsOwnFifty_AsStated ==
    Collected =>
        /\ Len(regions) - 1 <=
              Cardinality({ b \in BandStarts :
                              DenseBand(b) /\ Cardinality(InBand(b)) > 50 })
        /\ \A k \in 2..Len(regions) :
              \E b \in BandStarts :
                  /\ DenseBand(b)
                  /\ Cardinality(InBand(b)) > 50
                  /\ HasBandExtent(regions[k], b)

\* C16: a band candidate is added exactly for the bands that hold more than
\* 10% of the diff pixels and have more than 50 diff pixels within 15 rows of
\* the band start; the count of the band itself may be 50 or less.
BandNeedsFiftyNearby ==
    Collected =>
        /\ Len(regions) = 1 + Cardinality(QualifyingBands)
        /\ \A k \in 2..Len(regions) :
              \E b \in QualifyingBands : HasBandExtent(regions[k], b)
        /\ \A b \in BandStarts :
              (Cardinality(NearBand(b)) <= 50 \/ ~DenseBand(b)) =>
                  b \notin QualifyingBands

\* A run with a candidate for a band of 50 or fewer pixels, and with a dense
\* band that has too few pixels nearby and gets no candidate.
BandNeedsFiftyNearby_Witness ==
    /\ Collected
    /\ \E b \in QualifyingBands :
          /\ Cardinality(InBand(b)) <= 50
          /\ \E k \in 2..Len(regions) : HasBandExtent(regions[k], b)
    /\ \E b \in BandStarts :
          /\ DenseBand(b)
          /\ Cardinality(NearBand(b)) <= 50
    /\ Len(regions) = 1 + Cardinality(QualifyingBands)

\* The candidates have been filtered.
Filtered == pc \in {"slice", "done"} /\ ~caught /\ Len(diffPixels) > 0

\* C17: every candidate with area above 100 is, before the cap, either kept
\* or inside a kept region; so a candidate of area above 100 leaves the result
\* non-empty.
LargeCandidateKeptOrCovered ==
    Filtered =>
        /\ \A k \in 1..Len(regions) :
              Area(regions[k]) > 100 =>
                  \E u \in 1..Len(uniqueRegions) : Inside(regions[k], uniqueRegions[u])
        /\ (\E k \in 1..Len(regions) : Area(regions[k]) > 100) =>
              (Len(uniqueRegions) > 0 /\ (pc = "done" => Len(result) > 0))

\* A run in which two candidates of area above 100 are the same rectangle.
LargeCandidateKeptOrCovered_Reached ==
    /\ Filtered
    /\ \E j, k \in 1..Len(regions) :
          /\ j # k
          /\ regions[j] = regions[k]
          /\ Area(regions[k]) > 100

\* C18: every band candidate contains all the diff pixels it was computed
\* from, the pixels within 15 rows of the band start, also when the padded
\* rectangle is clamped at an image edge.
BandRegionCoversItsPixels ==
    Collected =>
        /\ Len(regions) = 1 + Cardinality(QualifyingBands)
        /\ \A k \in 1..Cardinality(QualifyingBands) :
              \A i \in NearBand(KthBand(k)) :
                  /\ regions[k + 1].x <= diffPixels[i].x
                  /\ diffPixels[i].x < regions[k + 1].x + regions[k + 1].width
                  /\ regions[k + 1].y <= diffPixels[i].y
                  /\ diffPixels[i].y < regions[k + 1].y + regions[k + 1].height

\* A run with a band candidate whose padding is cut at the left and top
\* edges, and one whose width is the image width.
BandRegionCoversItsPixels_Witness ==
    /\ Collected
    /\ Len(regions) >= 3
    /\ \E k \in 2..Len(regions) :
          /\ regions[k].x = 0
          /\ regions[k].y = 0
          /\ \E i \in NearBand(KthBand(k - 1)) :
                diffPixels[i].x < 5 /\ diffPixels[i].x > 0
    /\ \E k \in 2..Len(regions) : regions[k].width = png.width

-----------------------------------------------------------------------------
(* Properties of the commands.                                             *)

IsStoryCommand == command \in {"screenshot-stories", "screenshot-stories-ws"}

Entered(phase) == \E i \in 1..Len(phases) : phases[i] = phase

\* The place of a phase in the fixed order.
PhaseRank(phase) ==
    CASE phase = "generate"   -> 1
      [] phase = "capture"    -> 2
      [] phase = "update"     -> 3
      [] phase = "clearDiffs" -> 4
      [] phase = "compare"    -> 5

\* Capture, then baseline update, then comparison; with --update-baseline no
\* comparison, without it no write to the baseline directory.
PhasesInOrder ==
    /\ \A i, j \in 1..Len(phases) : i < j => PhaseRank(phases[i]) < PhaseRank(phases[j])
    /\ args.updateBaseline =>
          (~Entered("clearDiffs") /\ ~Entered("compare") /\ ~passedTolerance.passed)
    /\ ~args.updateBaseline => (~Entered("update") /\ ~disk.baselineWritten)

\* C14 as stated: the phases run in order, --update-baseline excludes the
\* comparison, a run without it never writes the baseline, and
\* compare-screenshots --update-baseline updates the baseline and exits 0.
UpdateExitsZero_AsStated ==
    cliPc # "idle" =>
        /\ PhasesInOrder
        /\ (command = "compare-screenshots" /\ args.updateBaseline /\ cliPc = "exited") =>
              (Entered("update") /\ disk.copied /\ exitCode = "0")

\* C14: the phases run in order, --update-baseline excludes the comparison, a
\* run without it never writes the baseline, and compare-screenshots
\* --update-baseline calls updateBaseline without comparing and exits 0 when
\* the copy succeeds and 1 when it throws.
UpdateExcludesCompare ==
    cliPc # "idle" =>
        /\ PhasesInOrder
        /\ (command = "compare-screenshots" /\ args.updateBaseline /\ cliPc = "exited") =>
              /\ phases = <<"update">>
              /\ disk.baselineWritten
              /\ exitCode = (IF disk.copied THEN "0" ELSE "1")
        /\ (IsStoryCommand /\ args.updateBaseline /\ cliPc = "exited" /\ exitCode = "0") =>
              (Entered("update") /\ disk.copied)

\* A run of compare-screenshots --update-baseline whose update threw: it has
\* ended with 1 and did not compare.
UpdateExcludesCompare_Witness ==
    /\ cliPc = "exited"
    /\ command = "compare-screenshots"
    /\ args.updateBaseline
    /\ phases = <<"update">>
    /\ ~disk.copied
    /\ exitCode = "1"

\* A run of screenshot-stories --update-baseline that captured, updated the
\* baseline and ended with 0 without comparing.
UpdateExcludesCompare_StoryRun ==
    /\ cliPc = "exited"
    /\ command = "screenshot-stories"
    /\ args.updateBaseline
    /\ ~args.skipCompare
    /\ phases = <<"generate", "capture", "update">>
    /\ exitCode = "0"

\* C15: the tolerance handed to compareScreenshots is the value given with
\* -t / --tolerance, and 2.5 only when the option is absent.
ToleranceHonoured ==
    (cliPc = "exited" /\ passedTolerance.passed) =>
        passedTolerance.value =
            (IF args.tolerance.given THEN args.tolerance.value ELSE DefaultTolerance)

\* A run that compared with --tolerance 0 given.
ToleranceHonoured_Reached ==
    /\ cliPc = "exited"
    /\ passedTolerance.passed
    /\ args.tolerance = Given(0)

-----------------------------------------------------------------------------
(* Properties of parseIgnoreRegions.                                       *)

\* A part that is an integer: blanks around it, an optional sign, and then
\* digits only.
IsIntegerPart(part) ==
    LET t == trim(part)
        body == IF Len(t) > 0 /\ t[1] \in {"-", "+"} THEN Tail(t) ELSE t
    IN  /\ Len(body) > 0
        /\ \A i \in 1..Len(body) : isDigit(body[i])

\* The integer such a part denotes.
IntegerOfPart(part) ==
    LET t == trim(part)
        body == IF t[1] \in {"-", "+"} THEN Tail(t) ELSE t
    IN  IF t[1] = "-" THEN 0 - digitsValue(body) ELSE digitsValue(body)

\* A segment with exactly four comma-separated integers.
IsWellFormedSegment(seg) ==
    LET pieces == split(trim(seg), ",")
    IN  /\ Len(pieces) = 4
        /\ \A k \in 1..4 : IsIntegerPart(pieces[k])

RegionOfSegment(seg) ==
    LET pieces == split(trim(seg), ",")
    IN  DiffRegion(IntegerOfPart(pieces[1]), IntegerOfPart(pieces[2]),
                   IntegerOfPart(pieces[3]), IntegerOfPart(pieces[4]))

\* C21: parseIgnoreRegions returns one region per segment, in order, when
\* every segment has exactly four comma-separated integers, and the empty
\* list when a segment is malformed or the string is empty or blank; it never
\* returns a partial list.
ParseAllOrNothing ==
    flagPc = "returned" =>
        LET segs == split(regionsStr, ";")
        IN  IF \A k \in 1..Len(segs) : IsWellFormedSegment(segs[k])
            THEN /\ Len(parsed) = Len(segs)
                 /\ \A k \in 1..Len(segs) : parsed[k] = RegionOfSegment(segs[k])
            ELSE parsed = << >>

\* The typed value 0,0,11,1e2 has been parsed.
ParseAllOrNothing_Reached ==
    /\ flagPc = "returned"
    /\ regionsStr = <<"0", ",", "0", ",", "1", "1", ",", "1", "e", "2">>
    /\ parsed = << DiffRegion(0, 0, 11, 1) >>

-----------------------------------------------------------------------------
(* Properties of the ignore regions handed to odiff.                       *)

\* The positions of the given regions that are valid, and the k-th of them.
ValidPositions ==
    { i \in 1..Len(ignoreRegions.regions) :
        /\ ignoreRegions.given
        /\ ignoreRegions.regions[i].x >= 0
        /\ ignoreRegions.regions[i].y >= 0
        /\ ignoreRegions.regions[i].width > 0
        /\ ignoreRegions.regions[i].height > 0 }

KthValidRegion(k) ==
    ignoreRegions.regions[
        CHOOSE i \in ValidPositions :
            Cardinality({ j \in ValidPositions : j < i }) = k - 1]

\* C22: every odiff call gets exactly the valid ignore regions, in their
\* original order, as corner pairs x1 = x, y1 = y, x2 = x + width,
\* y2 = y + height, and no ignore-region option when no region is valid.
OnlyValidRegionsReachOdiff ==
    cmpPc \in {"awaiting", "resolved"} =>
        /\ Len(odiffOptions) = Len(odiffCalls)
        /\ \A c \in 1..Len(odiffOptions) :
              LET o == odiffOptions[c]
              IN  /\ o.hasIgnoreRegions <=> ValidPositions # {}
                  /\ Len(o.ignoreRegions) = Cardinality(ValidPositions)
                  /\ \A k \in 1..Len(o.ignoreRegions) :
                        /\ o.ignoreRegions[k].x1 = KthValidRegion(k).x
                        /\ o.ignoreRegions[k].y1 = KthValidRegion(k).y
                        /\ o.ignoreRegions[k].x2 =
                              KthValidRegion(k).x + KthValidRegion(k).width
                        /\ o.ignoreRegions[k].y2 =
                              KthValidRegion(k).y + KthValidRegion(k).height

\* A run that compared two files with an invalid region given before a valid
\* one.
OnlyValidRegionsReachOdiff_Witness ==
    /\ cmpPc = "resolved"
    /\ Len(odiffCalls) = 2
    /\ ignoreRegions = Defined(<< DiffRegion(0, 0, 0, 11), DiffRegion(85, 85, 100, 11) >>)
    /\ odiffOptions[2].ignoreRegions = << [x1 |-> 85, y1 |-> 85, x2 |-> 185, y2 |-> 96] >>

\* A run that compared a file with only invalid regions given: the call has
\* no ignore-region option.
OnlyValidRegionsReachOdiff_NoneValid ==
    /\ cmpPc = "resolved"
    /\ Len(odiffCalls) >= 1
    /\ ignoreRegions = Defined(<< DiffRegion(0 - 5, 0, 11, 11) >>)
    /\ ~odiffOptions[1].hasIgnoreRegions

-----------------------------------------------------------------------------
(* Properties of snapshotStorybookViaWebsocket.                            *)

\* How often SET_CURRENT_STORY was emitted for a story.
EmitsFor(id) == Cardinality({ i \in 1..Len(emitted) : emitted[i] = id })

\* C23: setStoryWithRetry emits SET_CURRENT_STORY once per attempt and at
\* most 3 times per story; an attempt resolves on an event that carries the
\* story's id and on no other event; it rejects exactly when 3 attempts have
\* timed out.
RetryAtMostThrice ==
    /\ \A i \in 1..Len(entries) : EmitsFor(entries[i]) <= 3
    /\ timeouts <= 3
    /\ snapPc = "attempt" =>
          /\ attempt \in 1..3
          /\ EmitsFor(entries[entryIdx]) = attempt
          /\ timeouts = attempt - 1
    /\ snapPc = "retry" =>
          /\ attempt \in 1..2
          /\ EmitsFor(entries[entryIdx]) = attempt
          /\ timeouts = attempt
    /\ snapPc = "shot" =>
          /\ confirmed[Len(confirmed)].id = entries[entryIdx]
          /\ confirmed[Len(confirmed)].attempt = attempt
          /\ EmitsFor(entries[entryIdx]) = attempt
          /\ timeouts = attempt - 1
    /\ \A k \in 1..Len(confirmed) :
          /\ confirmed[k].id = entries[confirmed[k].entry]
          /\ confirmed[k].attempt \in 1..3
    /\ (failedAt = "setStory") <=> (timeouts = 3)
    /\ timeouts = 3 =>
          /\ snapPc = "rejected"
          /\ EmitsFor(entries[entryIdx]) = 3

\* A run whose first story was confirmed in its second attempt and whose
\* second story failed after three timeouts, with events that resolved
\* nothing in between.
RetryAtMostThrice_Witness ==
    /\ snapPc = "rejected"
    /\ failedAt = "setStory"
    /\ entryIdx = 2
    /\ Len(confirmed) = 1
    /\ confirmed[1].attempt = 2
    /\ strayEvents >= 1
    /\ Len(emitted) = 5

\* C24: the screenshots are taken in story order, one per entry, each after
\* an event with the entry's id resolved an attempt for that entry; when
\* setting a story fails, neither that entry nor a later one is taken.
ScreenshotsInStoryOrder ==
    /\ Len(snapshots) <= Len(entries)
    /\ \A k \in 1..Len(snapshots) : snapshots[k] = entries[k]
    /\ Len(snapshots) <= Len(confirmed)
    /\ Len(confirmed) <= Len(snapshots) + 1
    /\ \A k \in 1..Len(confirmed) :
          /\ confirmed[k].entry = k
          /\ confirmed[k].id = entries[k]
    /\ failedAt = "setStory" =>
          /\ Len(snapshots) = entryIdx - 1
          /\ \A k \in 1..Len(snapshots) : snapshots[k] # entries[entryIdx]
    /\ snapPc = "resolved" => Len(snapshots) = Len(entries)

\* A run that took two screenshots in order although events with other ids
\* arrived, the second story being confirmed in a later attempt.
ScreenshotsInStoryOrder_Witness ==
    /\ snapPc = "resolved"
    /\ snapshots = <<"story-1", "story-2">>
    /\ strayEvents >= 1
    /\ confirmed[2].attempt >= 2

\* C25: when the promise has settled, the ping interval is cleared if it was
\* started, the server is closed, no client connection is open, and no ping
\* was sent after settling.
ResourcesReleased ==
    Settled =>
        /\ pingInterval \in {"null", "cleared"}
        /\ pingInterval = "null" => failedAt = "channel"
        /\ wssState = "closed"
        /\ \A c \in DOMAIN clients : clients[c] # "open"
        /\ ~pingedAfterSettle

\* A run that failed at a screenshot after pings were sent and a client had
\* connected.
ResourcesReleased_Witness ==
    /\ snapPc = "rejected"
    /\ failedAt = "screenshot"
    /\ pingInterval = "cleared"
    /\ pingTicks >= 1
    /\ \E c \in DOMAIN clients : clients[c] = "closed"

\* A run that failed before the interval was started.
ResourcesReleased_BeforeInterval ==
    /\ snapPc = "rejected"
    /\ failedAt = "channel"
    /\ pingInterval = "null"
    /\ wssState = "closed"

-----------------------------------------------------------------------------
(* Properties of the relay.                                                *)

\* The step in which the server receives the oldest message of client c.
Receives(c) ==
    /\ Len(outbox[c]) > 0
    /\ outbox'[c] = Tail(outbox[c])

\* What such a step does: a JSON message reaches, in compact form, every
\* client that is connected, the sender included, and nobody else; any other
\* message reaches nobody; the connections stay as they are.
RelayStep ==
    \A c \in ClientIds :
        Receives(c) =>
            LET text == Head(outbox[c])
            IN  /\ sockets' = sockets
                /\ \A d \in ClientIds :
                      IF text.json /\ sockets[d].state = "open"
                      THEN inbox'[d] =
                              Append(inbox[d], [json |-> TRUE, value |-> text.value,
                                                spacing |-> "compact"])
                      ELSE inbox'[d] = inbox[d]
                /\ (text.json /\ sockets[c].state = "open") =>
                      Len(inbox'[c]) = Len(inbox[c]) + 1

\* The messages of one sender arrive at every client in the order sent, and
\* only JSON in compact form arrives.
RelayInOrder ==
    \A d \in DOMAIN inbox :
        /\ \A k \in 1..Len(inbox[d]) :
              inbox[d][k].json /\ inbox[d][k].spacing = "compact"
        /\ \A j, k \in 1..Len(inbox[d]) :
              (j < k /\ inbox[d][j].value.from = inbox[d][k].value.from) =>
                  inbox[d][j].value.n < inbox[d][k].value.n

\* C26: every message that parses as JSON is sent, re-serialised, to every
\* client connected at that moment, the sender included; the messages of one
\* client are relayed in the order received; a message that does not parse
\* is relayed to nobody and leaves the connections as they are.
RelaysToEveryClient == [][RelayStep]_vars /\ []RelayInOrder

\* A run in which the app got its own two messages back in order, one of
\* them sent with white space, while the manager was connected for the
\* second only, and a message that is not JSON was dropped.
RelaysToEveryClient_Witness ==
    /\ parseErrors >= 1
    /\ Len(inbox["app"]) = 2
    /\ inbox["app"][1].value.from = "app"
    /\ inbox["app"][2].value.from = "app"
    /\ Len(inbox["manager"]) = 1
    /\ inbox["manager"][1] = inbox["app"][2]

====
